---- MODULE Spec2Model ----
(***************************************************************************)
(* CommandService of the terminal portfolio: the execution state machine,  *)
(* the navigation history and the RxJS pipeline that resolves a command.   *)
(*                                                                         *)
(* The repository holds two revisions of CommandService:                   *)
(*   impl = "http"    src/src/app/core/services/command.service.ts         *)
(*                    (POST /api/v1/commands/execute, timeout, catchError  *)
(*                    -> handleCommandError, finalize)                     *)
(*   impl = "offline" src/unnamed/part_008                                 *)
(*                    (executeOfflineCommand: static assets, delay,        *)
(*                    catchError, finalize)                                *)
(*                                                                         *)
(* A string is a sequence of one-character strings, so that trim(),        *)
(* toLowerCase() and split(' ') are computed, not assumed.                 *)
(*                                                                         *)
(* JavaScript runs one handler at a time.  A handler that emits on a       *)
(* BehaviorSubject or calls a subscriber callback is split at those        *)
(* points, because subscribers run there and see the state in between;     *)
(* while a frame is open, only the code of that handler can take a step.   *)
(***************************************************************************)
EXTENDS Integers, Sequences, FiniteSets, TLC

VARIABLES
    impl,             \* which revision of CommandService runs
    executionState,   \* executionStateSubject.value
    currentCommand,   \* currentCommandSubject.value: {} is null, {c} is c
    commandHistory,   \* commandHistorySubject.value
    flights,          \* resolutions subscribed and not yet answered, oldest first
    frame,            \* the answer being delivered: callback, then finalize
    returned,         \* what the last executeCommand call gave its caller
    lastFinal,        \* ghost: the last command finalize handed to addToHistory
    log,              \* ghost: commands finalized since the last clearHistory,
                      \*        a repeat of the one before it left out
    sessionTheme,     \* SessionService: themeSubject.value
    prefTheme,        \* SessionService: preferencesSubject.value.theme
    session,          \* SessionService: sessionSubject.value: {} is null
    stored,           \* localStorage 'portfolio-session': {} is no item
    now,              \* the clock, in milliseconds since the first page load
    boots,            \* ghost: how many times the page has been loaded
    display,          \* TerminalContainerComponent: commandHistory, the items shown
    termSession,      \* TerminalContainerComponent: sessionId and welcomeMessage,
                      \*        {} before a session was seen
    call,             \* the last call of a side-effect free method: its name,
                      \*        its argument and what it returned
    navHistory,       \* CommandHistoryService: historySubject.value
    currentIndex,     \* CommandHistoryService: currentIndex
    tempCommand,      \* CommandHistoryService: tempCommand
    navReturned,      \* what the last getPreviousCommand or getNextCommand returned
    walk,             \* ghost: the navigation calls made since the last other call,
                      \*        which call that was, and whether it left the cursor
                      \*        past the last entry
    inputHistory,     \* CommandInputComponent: commandHistory
    historyIndex,     \* CommandInputComponent: historyIndex
    inputCommand,     \* CommandInputComponent: currentCommand, the text of the input
    inputTemp,        \* CommandInputComponent: tempCommand
    keys              \* ghost: the input and whether the cursor was at the live
                      \*        position when the arrow keys were first pressed, and
                      \*        the arrow keys pressed since

sessionVars == <<sessionTheme, prefTheme, session, stored, now, boots>>

serviceVars == <<impl, executionState, currentCommand, commandHistory, flights,
                 frame, returned, lastFinal, log, sessionVars>>

\* the variables the CommandService pipeline does not touch
queryVars == <<call>>
navVars == <<navHistory, currentIndex, tempCommand, navReturned, walk>>
termVars == <<display, termSession>>
inputVars == <<inputHistory, historyIndex, inputCommand, inputTemp, keys>>
otherVars == <<queryVars, navVars, termVars, inputVars>>

vars == <<serviceVars, otherVars>>

----------------------------------------------------------------------------
(* Bounds of the model *)

\* Spec: finalized commands (repeats left out) between two clearHistory calls
MaxLog == 3
\* SpecLong: the same, chosen to pass the capacity of the history
MaxLongLog == 52
\* executeCommand calls one subscriber callback makes
MaxNested == 1
\* SpecTheme: finalized commands (repeats left out) between two clearHistory calls
MaxThemeLog == 2
\* SpecAssets: finalized commands (repeats left out) between two clearHistory calls
MaxAssetLog == 2
\* SpecTerminal: finalized commands (repeats left out) between two clearHistory
\* calls, and the items the display may hold
MaxTermLog == 2
MaxDisplay == 5
\* SpecFormat: the longest text formatted, the longest table and the page numbers
MaxText == 5
MaxRows == 2
MaxPage == 3
\* page loads followed
MaxBoots == 4
\* the clock advances by half a day at a time, this many times at most
ClockStepMs == 43200000
MaxClockSteps == 6
\* SpecInput: entries of the history the input walks, and arrow keys followed
MaxInputLen == 3
MaxKeys == 7
\* SpecQuery: characters of the prefixes of command names that are queried
MaxPrefix == 3
\* SpecNav: entries of the navigation history
MaxNavLen == 3
\* SpecNav: getPreviousCommand and getNextCommand calls followed in a row
MaxWalk == 8
\* milliseconds of one step of the clock
TickMs == 10000
\* steps of the clock a resolution is followed for
MaxAge == 2

(* Program constants *)

\* requestTimeout = 10000; // 10 seconds
RequestTimeout == 10000
\* addToHistory: "Keep only last 50 commands"
HistoryCap == 50
\* createOfflineSession: expiresAt is now + 24 * 60 * 60 * 1000
SessionLifetime == 86400000
\* CommandHistoryService: maxHistorySize = 50
MaxHistorySize == 50

----------------------------------------------------------------------------
(* Strings *)

Upper == <<"A","B","C","D","E","F","G","H","I","J","K","L","M",
           "N","O","P","Q","R","S","T","U","V","W","X","Y","Z">>
LowerOf == <<"a","b","c","d","e","f","g","h","i","j","k","l","m",
             "n","o","p","q","r","s","t","u","v","w","x","y","z">>

\* the characters String.prototype.trim removes (those the inputs use)
WhiteSpace == {" ", "\t", "\n"}

UpperSet == {Upper[i] : i \in 1..Len(Upper)}
LowerTable == [c \in UpperSet |-> LowerOf[CHOOSE i \in 1..Len(Upper) : Upper[i] = c]]

\* toLowerCase() of one character
LowerChar(c) == IF c \in UpperSet THEN LowerTable[c] ELSE c

ToLowerCase(s) == [i \in 1..Len(s) |-> LowerChar(s[i])]

RECURSIVE TrimStart(_)
TrimStart(s) ==
    IF s # << >> /\ Head(s) \in WhiteSpace THEN TrimStart(Tail(s)) ELSE s

RECURSIVE TrimEnd(_)
TrimEnd(s) ==
    IF s # << >> /\ s[Len(s)] \in WhiteSpace
    THEN TrimEnd(SubSeq(s, 1, Len(s) - 1))
    ELSE s

Trim(s) == TrimEnd(TrimStart(s))

\* s.split(' '): the pieces between single spaces; never empty ("" gives [""])
RECURSIVE SplitFrom(_, _, _)
SplitFrom(s, i, cur) ==
    IF i > Len(s) THEN <<cur>>
    ELSE IF s[i] = " " THEN <<cur>> \o SplitFrom(s, i + 1, << >>)
    ELSE SplitFrom(s, i + 1, Append(cur, s[i]))

Split(s) == SplitFrom(s, 1, << >>)

----------------------------------------------------------------------------
(* Command registry *)

AVAILABLE_COMMANDS == <<
    <<"h","e","l","p">>,
    <<"s","u","m","m","a","r","y">>,
    <<"a","b","o","u","t","m","e">>,
    <<"s","k","i","l","l","s">>,
    <<"e","x","p","e","r","i","e","n","c","e">>,
    <<"e","d","u","c","a","t","i","o","n">>,
    <<"h","i","g","h","l","i","g","h","t","s">>,
    <<"t","r","y","m","e">>,
    <<"d","o","w","n","l","o","a","d">>,
    <<"c","l","e","a","r">>,
    <<"t","h","e","m","e">> >>

Includes(list, x) == \E i \in 1..Len(list) : list[i] = x

IsValidCommandWholeText(command) ==
    Includes(AVAILABLE_COMMANDS, ToLowerCase(command))

IsValidCommandAnyToken(command) ==
    LET tokens == Split(command)
    IN  \E i \in 1..Len(tokens) : Includes(AVAILABLE_COMMANDS, ToLowerCase(tokens[i]))

IsValidCommand(command) ==
    LET baseCommand == ToLowerCase(Split(command)[1])
    IN  Includes(AVAILABLE_COMMANDS, baseCommand)

\* String.prototype.startsWith
StartsWith(s, prefix) ==
    /\ Len(prefix) <= Len(s)
    /\ SubSeq(s, 1, Len(prefix)) = prefix

GetCommandSuggestionsCaseSensitive(partial) ==
    IF partial = << >> THEN AVAILABLE_COMMANDS
    ELSE SelectSeq(AVAILABLE_COMMANDS, LAMBDA cmd : StartsWith(cmd, partial))

\* getCommandSuggestions(partial): "" is falsy
GetCommandSuggestions(partial) ==
    IF partial = << >> THEN AVAILABLE_COMMANDS
    ELSE LET lowerPartial == ToLowerCase(partial)
         IN  SelectSeq(AVAILABLE_COMMANDS,
                       LAMBDA cmd : StartsWith(ToLowerCase(cmd), lowerPartial))

----------------------------------------------------------------------------
(* The texts submitted *)

R_help      == <<"h","e","l","p">>
R_HelpPad   == <<" ","H","e","l","p"," ">>
R_summary   == <<"s","u","m","m","a","r","y">>
R_skillsArg == <<"s","k","i","l","l","s"," ","f","r","o","n","t","e","n","d">>
R_bogus     == <<"b","o","g","u","s">>
R_empty     == << >>
R_tabbed    == <<"h","e","l","p","\t","x">>

Inputs     == {R_help, R_HelpPad, R_summary, R_skillsArg, R_bogus, R_empty, R_tabbed}
LongInputs == {R_help, R_summary, R_bogus}

R_theme       == <<"t","h","e","m","e">>
R_themeDark   == <<"t","h","e","m","e"," ","d","a","r","k">>
R_themeLight  == <<"t","h","e","m","e"," ","l","i","g","h","t">>
R_themeNeon   == <<"t","h","e","m","e"," ","n","e","o","n">>
R_ThemeDARK   == <<" ","T","h","e","m","e"," ","D","A","R","K"," ">>
R_themeGap    == <<"t","h","e","m","e"," "," ","d","a","r","k">>
R_themeTwo    == <<"t","h","e","m","e"," ","n","e","o","n"," ","d","a","r","k">>

R_skills            == <<"s","k","i","l","l","s">>
R_skillsTools       == <<"s","k","i","l","l","s"," ","t","o","o","l","s">>
R_skillsPrinciples  == <<"s","k","i","l","l","s"," ","p","r","i","n","c","i","p","l","e","s">>
R_SkillsFRONTEND    == <<"S","k","i","l","l","s"," ","F","R","O","N","T","E","N","D">>
R_skillsGap         == <<"s","k","i","l","l","s"," "," ","f","r","o","n","t","e","n","d">>
R_skillsConstructor == <<"s","k","i","l","l","s"," ","c","o","n","s","t","r","u","c","t","o","r">>
R_skillsTab         == <<"s","k","i","l","l","s","\t","t","o","o","l","s">>
R_AboutPad          == <<" ","A","b","o","u","t","M","e","\t">>

R_clear    == <<"c","l","e","a","r">>
R_ClearPad == <<" ","C","L","E","A","R"," ">>
R_ClearAll == <<"C","l","e","a","r"," ","a","l","l">>
R_blank    == <<" ">>

TermInputs == {R_help, R_bogus, R_clear, R_ClearPad, R_ClearAll, R_blank}

AssetInputs == {R_skills, R_skillsArg, R_skillsTools, R_skillsPrinciples,
                R_SkillsFRONTEND, R_skillsGap, R_skillsConstructor, R_skillsTab,
                R_summary, R_help, R_bogus, R_AboutPad}

ThemeInputs == {R_theme, R_themeDark, R_themeLight, R_themeNeon, R_ThemeDARK,
                R_themeGap, R_themeTwo, R_help}

(* The texts given to isValidCommand and getCommandSuggestions *)

ToUpperCase(s) ==
    [i \in 1..Len(s) |->
        IF \E j \in 1..Len(LowerOf) : LowerOf[j] = s[i]
        THEN Upper[CHOOSE j \in 1..Len(LowerOf) : LowerOf[j] = s[i]]
        ELSE s[i]]

Registered == {AVAILABLE_COMMANDS[i] : i \in 1..Len(AVAILABLE_COMMANDS)}

\* what follows a command name: nothing, or a space and an argument text
ArgTexts == {<<"x">>, << >>, <<"a"," ","b">>, <<"\t">>, <<"F","r","o","n","t">>, <<" ">>}

\* the prefixes of the command names, the empty text and the names among them
Prefixes == {SubSeq(c, 1, n) : c \in Registered, n \in 0..MaxPrefix}

Strays == {<<"x","y","z">>, <<" ","h","e","l","p">>, <<"x"," ","h","e","l","p">>,
           <<"h","e","l","p","\t","x">>, <<"h","e","l","p","x">>,
           <<"\t","h","e","l","p">>, <<"t","h","e","m","e","s">>}

QueryArgs ==
    Registered
    \cup {ToUpperCase(c) : c \in Registered}
    \cup {c \o <<" ">> \o x : c \in Registered, x \in ArgTexts}
    \cup {ToUpperCase(c) \o <<" ">> \o x : c \in Registered, x \in ArgTexts}
    \cup Prefixes
    \cup {ToUpperCase(q) : q \in Prefixes}
    \cup Strays

----------------------------------------------------------------------------
(* Errors *)

GetErrorSuggestion(errorCode) ==
    CASE errorCode = "INVALID_COMMAND"   -> "Type 'help' to see available commands"
      [] errorCode = "COMMAND_NOT_FOUND" -> "Check spelling or type 'help' for available commands"
      [] errorCode = "RATE_LIMIT"        -> "Please wait a few seconds before trying again"
      [] errorCode = "TIMEOUT"           -> "Check your internet connection and try again"
      [] OTHER                           -> "Type 'help' for assistance"

\* a CommandError: its code and its suggestion (the message is left out)
CreateCommandError(code) ==
    [kind |-> "CommandError", code |-> code, suggestion |-> GetErrorSuggestion(code)]

\* new Error('Another command is currently processing'): no code, no suggestion
ConcurrentExecutionError ==
    [kind |-> "Error", code |-> "Another command is currently processing",
     suggestion |-> ""]

\* the call returned the pipeline and the caller subscribed to it
Subscribed == [kind |-> "Observable", code |-> "", suggestion |-> ""]
NoCall     == [kind |-> "none", code |-> "", suggestion |-> ""]

----------------------------------------------------------------------------
(* State *)

Null == {}
Some(c) == {c}
NoFrame == [step |-> "none"]
NoFinal == [kind |-> "none"]

IsProcessing == executionState = "processing"

\* the resolutions in flight without the ghost field
Requests(fs) == [i \in 1..Len(fs) |-> [cmd |-> fs[i].cmd, age |-> fs[i].age]]

\* no side-effect free method has been called
NoQuery == [fn |-> "none", arg |-> << >>, result |-> FALSE]

ServiceInit ==
    /\ impl \in {"http", "offline"}
    /\ executionState = "idle"
    /\ currentCommand = Null
    /\ commandHistory = << >>
    /\ flights = << >>
    /\ frame = NoFrame
    /\ returned = NoCall
    /\ lastFinal = NoFinal
    /\ log = << >>

T_dark  == <<"d","a","r","k">>
T_light == <<"l","i","g","h","t">>

\* AVAILABLE_THEMES: Record<ThemeType, ThemeConfig> has the one key 'dark'
AVAILABLE_THEMES == {T_dark}

\* the one member of a non-null value
The(v) == CHOOSE x \in v : TRUE

\* get sessionId(): currentSession?.id || null, tested for truth
HasSessionId == session # Null

WelcomeText == "Welcome to Joseph Lee's interactive portfolio! Type 'help' to begin."

\* createOfflineSession's session object; the dates are written with toISOString
\* and read with new Date(...), which give back the same millisecond
OfflineSession(id, at) ==
    [id |-> id, createdAt |-> at, expiresAt |-> at + SessionLifetime,
     welcomeMessage |-> WelcomeText]

\* createOfflineSession(): setSession and storeSession.  Ids are made of a random
\* number and the clock; here the id is the number of the page load.
CreateOfflineSession(id, at) ==
    [session |-> Some(OfflineSession(id, at)), stored |-> Some(OfflineSession(id, at))]

\* isSessionValid(session)
IsSessionValid(s, at) == at < s.expiresAt

\* isSessionExpired(): it asks the current session, not one handed to it
IsSessionExpired(current, at) ==
    IF current = Null THEN TRUE ELSE at > The(current).expiresAt

\* restoreSession(session)
RestoreSession(current, s, item, id, at) ==
    IF IsSessionExpired(current, at)
    THEN CreateOfflineSession(id, at)
    ELSE [session |-> Some(s), stored |-> item]

\* initializeSession(), called by the constructor, when sessionSubject holds null
InitializeSession(item, id, at) ==
    IF item # Null /\ IsSessionValid(The(item), at)
    THEN RestoreSession(Null, The(item), item, id, at)
    ELSE CreateOfflineSession(id, at)

\* SessionService after construction on the first page load, nothing being stored
SessionInit ==
    /\ sessionTheme = T_dark
    /\ prefTheme = T_dark
    /\ now = 0
    /\ boots = 1
    /\ session = InitializeSession(Null, 1, 0).session
    /\ stored = InitializeSession(Null, 1, 0).stored

\* the item addWelcomeMessage pushes
WelcomeItem(message) == [type |-> "system", text |-> message]

\* addWelcomeMessage() on a list: nothing is pushed for an empty welcomeMessage
AddWelcomeMessage(items, seen) ==
    IF seen # Null /\ The(seen).welcomeMessage # ""
    THEN Append(items, WelcomeItem(The(seen).welcomeMessage))
    ELSE items

\* what initializeTerminal's subscription to session$ keeps of a session
Seen(current, before) ==
    IF current = Null THEN before
    ELSE Some([sessionId |-> The(current).id,
               welcomeMessage |-> The(current).welcomeMessage])

\* TerminalContainerComponent after ngOnInit
TermInit ==
    /\ termSession = Seen(session, Null)
    /\ display = AddWelcomeMessage(<< >>, Seen(session, Null))

\* CommandInputComponent after construction
InputInit ==
    /\ inputHistory = << >>
    /\ historyIndex = -1
    /\ inputCommand = << >>
    /\ inputTemp = << >>
    /\ keys = [t |-> << >>, live |-> FALSE, steps |-> << >>]

\* CommandHistoryService after construction
NavInit ==
    /\ navHistory = << >>
    /\ currentIndex = -1
    /\ tempCommand = << >>
    /\ navReturned = Null
    /\ walk = [from |-> "constructor", on |-> FALSE, steps |-> << >>]

Init ==
    /\ ServiceInit
    /\ SessionInit
    /\ TermInit
    /\ call = NoQuery
    /\ NavInit
    /\ InputInit

----------------------------------------------------------------------------
(* isValidCommand and getCommandSuggestions, called on a text *)

InitQuery ==
    /\ ServiceInit
    /\ SessionInit
    /\ TermInit
    /\ NavInit
    /\ InputInit
    /\ \E arg \in QueryArgs : call = [NoQuery EXCEPT !.arg = arg]

IsValidCommandCall ==
    /\ call.fn = "none"
    /\ call' = [call EXCEPT !.fn = "isValidCommand",
                            !.result = IsValidCommand(call.arg)]
    /\ UNCHANGED <<serviceVars, navVars, termVars, inputVars>>

GetCommandSuggestionsCall ==
    /\ call.fn = "none"
    /\ call' = [call EXCEPT !.fn = "getCommandSuggestions",
                            !.result = GetCommandSuggestions(call.arg)]
    /\ UNCHANGED <<serviceVars, navVars, termVars, inputVars>>

----------------------------------------------------------------------------
(* The theme command and SessionService.changeTheme *)

C_theme == <<"t","h","e","m","e">>

\* the content items of executeThemeCommand, and any other content
\* the list names sessionService.availableThemes, Object.values(AVAILABLE_THEMES)
ThemeListContent    == [kind |-> "themeList", color |-> "blue",
                        names |-> AVAILABLE_THEMES]
InvalidThemeContent == [kind |-> "invalidTheme", color |-> "red"]
ThemeChangedContent == [kind |-> "themeChanged", color |-> "green"]
ThemeFailedContent  == [kind |-> "themeFailed", color |-> "red"]
OtherContent        == [kind |-> "other", color |-> "other"]

\* a resolution that does not touch the session
Untouched(content) ==
    [content |-> content, theme |-> sessionTheme, pref |-> prefTheme,
     called |-> FALSE, patch |-> FALSE, newPref |-> prefTheme]

\* changeTheme(theme) under executeThemeCommand's map and catchError.  A theme that
\* AVAILABLE_THEMES lacks is refused with throwError.  Otherwise themeSubject
\* takes the theme at once; with no session id the preferences are updated at
\* once too, with one they wait for the answer to the PATCH.
ChangeTheme(theme) ==
    IF theme \notin AVAILABLE_THEMES
    THEN [Untouched(ThemeFailedContent) EXCEPT !.called = TRUE]
    ELSE [content |-> ThemeChangedContent,
          theme |-> theme,
          pref |-> IF HasSessionId THEN prefTheme ELSE theme,
          called |-> TRUE,
          patch |-> HasSessionId,
          newPref |-> theme]

ExecuteThemeCommandUnchecked(args) ==
    IF args = << >>
    THEN Untouched(ThemeListContent)
    ELSE ChangeTheme(ToLowerCase(args[1]))

\* executeThemeCommand(args)
ExecuteThemeCommand(args) ==
    IF args = << >>
    THEN Untouched(ThemeListContent)
    ELSE LET themeName == ToLowerCase(args[1])
         IN  IF themeName # T_dark /\ themeName # T_light
             THEN Untouched(InvalidThemeContent)
             ELSE ChangeTheme(themeName)

\* generateResponseFromAssets(command, args): the theme command apart, the
\* content is not told apart
GenerateResponseFromAssets(command, args) ==
    IF command = C_theme THEN ExecuteThemeCommand(args) ELSE Untouched(OtherContent)

\* what executeCommand builds for an accepted command: the offline revision calls
\* executeOfflineCommand, which calls generateResponseFromAssets at once; the http
\* revision leaves everything to the server
Resolution(trimmedCommand) ==
    LET tokens == Split(trimmedCommand)
    IN  IF impl = "offline"
        THEN GenerateResponseFromAssets(tokens[1], Tail(tokens))
        ELSE Untouched(OtherContent)

\* executeOfflineCommand(command): const [cmd, ...args] = command.split(' ')
ExecuteOfflineCommand(command) ==
    LET tokens == Split(command)
    IN  [cmd |-> tokens[1], args |-> Tail(tokens)]

\* the resolution subscribed to, and what the session is left with; the http
\* revision posts the command whole and hands the resolver no arguments
NewFlight(trimmedCommand) ==
    LET r == Resolution(trimmedCommand)
    IN  [cmd |-> trimmedCommand, age |-> 0, rejects |-> FALSE,
         args |-> IF impl = "offline"
                  THEN ExecuteOfflineCommand(trimmedCommand).args ELSE << >>,
         content |-> r.content, called |-> r.called, patch |-> r.patch,
         newPref |-> r.newPref]

SessionAfter(trimmedCommand) ==
    LET r == Resolution(trimmedCommand)
    IN  /\ sessionTheme' = r.theme
        /\ prefTheme' = r.pref
        /\ UNCHANGED <<session, stored, now, boots>>

----------------------------------------------------------------------------
(* The skills resource and the skills command *)

C_skills == <<"s","k","i","l","l","s">>

K_frontend    == <<"f","r","o","n","t","e","n","d">>
K_backend     == <<"b","a","c","k","e","n","d">>
K_tools       == <<"t","o","o","l","s">>
K_principles  == <<"p","r","i","n","c","i","p","l","e","s">>
K_constructor == <<"c","o","n","s","t","r","u","c","t","o","r">>
K_proto       == <<"_","_","p","r","o","t","o","_","_">>

\* /assets/skills.json as http.get parses it: an object of string arrays, here the
\* categories in the order of the file
S_full  == << [cat |-> K_frontend, skills |-> <<"Angular", "TypeScript">>],
              [cat |-> K_backend,  skills |-> <<"Node.js">>],
              [cat |-> K_tools,    skills |-> << >>] >>
S_front == << [cat |-> K_frontend, skills |-> <<"Angular">>] >>
S_none  == << >>

SkillsResources == {S_full, S_front, S_none}

\* the categories of a resource: its own keys
Categories(data) == {data[i].cat : i \in 1..Len(data)}

\* the members a parsed object inherits from Object.prototype under a name that
\* toLowerCase leaves as it is
ObjectPrototype == {K_constructor, K_proto}

\* data[key]: the own property, else the inherited one, else undefined
Property(data, key) ==
    IF key \in Categories(data)
    THEN [is |-> "array",
          items |-> data[CHOOSE i \in 1..Len(data) : data[i].cat = key].skills]
    ELSE IF key \in ObjectPrototype
         THEN [is |-> "inherited", items |-> <<key>>]
         ELSE [is |-> "undefined", items |-> << >>]

\* an array, empty or not, a function and an object are truthy; undefined is not
Truthy(v) == v.is # "undefined"

\* Object.entries(data) mapped to a heading and its bullets
AllSkills(data) ==
    [is |-> "allSkills",
     items |-> [i \in 1..Len(data) |->
                   [heading |-> ToUpperCase(data[i].cat), bullets |-> data[i].skills]]]

\* the map over http.get('/assets/skills.json') in generateResponseFromAssets;
\* args[0] of a command without arguments is undefined, an empty token is falsy
SkillsContent(data, args) ==
    IF args # << >> /\ args[1] # << >> /\ Truthy(Property(data, args[1]))
    THEN [kind |-> "list", color |-> "blue", payload |-> Property(data, args[1])]
    ELSE [kind |-> "text", color |-> "blue", payload |-> AllSkills(data)]

\* what the answered resolution of flight f carries to the subscriber
ContentOf(f, data) ==
    LET tokens == Split(f.cmd)
    IN  IF impl = "offline" /\ tokens[1] = C_skills
        THEN SkillsContent(data, Tail(tokens))
        ELSE f.content

----------------------------------------------------------------------------
(* executeCommand, and the caller's subscribe *)

ExecuteCommandValidatesLate(command) ==
    LET trimmedCommand == ToLowerCase(Trim(command)) IN
    IF IsProcessing
    THEN /\ returned' = ConcurrentExecutionError
         /\ flights' = [i \in 1..Len(flights) |-> [flights[i] EXCEPT !.rejects = TRUE]]
         /\ UNCHANGED <<impl, executionState, currentCommand, commandHistory,
                        lastFinal, log, sessionVars>>
    ELSE /\ executionState' = "processing"
         /\ currentCommand' = Some(trimmedCommand)
         /\ IF ~IsValidCommand(trimmedCommand)
            THEN /\ returned' = CreateCommandError("INVALID_COMMAND")
                 /\ UNCHANGED <<flights, sessionVars>>
            ELSE /\ returned' = Subscribed
                 /\ flights' = Append(flights, NewFlight(trimmedCommand))
                 /\ SessionAfter(trimmedCommand)
         /\ UNCHANGED <<impl, commandHistory, lastFinal, log>>

ExecuteCommandGuardsLate(command) ==
    LET trimmedCommand == ToLowerCase(Trim(command)) IN
    IF ~IsValidCommand(trimmedCommand)
    THEN /\ returned' = CreateCommandError("INVALID_COMMAND")
         /\ UNCHANGED <<impl, executionState, currentCommand, commandHistory,
                        flights, lastFinal, log, sessionVars>>
    ELSE /\ currentCommand' = Some(trimmedCommand)
         /\ IF IsProcessing
            THEN /\ returned' = ConcurrentExecutionError
                 /\ flights' = [i \in 1..Len(flights) |->
                                   [flights[i] EXCEPT !.rejects = TRUE]]
                 /\ UNCHANGED <<executionState, sessionVars>>
            ELSE /\ returned' = Subscribed
                 /\ executionState' = "processing"
                 /\ flights' = Append(flights, NewFlight(trimmedCommand))
                 /\ SessionAfter(trimmedCommand)
         /\ UNCHANGED <<impl, commandHistory, lastFinal, log>>

ExecuteCommandRecordsRejected(command) ==
    IF IsProcessing
    THEN /\ returned' = ConcurrentExecutionError
         /\ flights' = [i \in 1..Len(flights) |-> [flights[i] EXCEPT !.rejects = TRUE]]
         /\ UNCHANGED <<impl, executionState, currentCommand, commandHistory,
                        lastFinal, log, sessionVars>>
    ELSE LET trimmedCommand == ToLowerCase(Trim(command)) IN
         IF ~IsValidCommand(trimmedCommand)
         THEN /\ returned' = CreateCommandError("INVALID_COMMAND")
              /\ commandHistory' = Append(commandHistory, trimmedCommand)
              /\ UNCHANGED <<impl, executionState, currentCommand,
                             flights, lastFinal, log, sessionVars>>
         ELSE /\ executionState' = "processing"
              /\ currentCommand' = Some(trimmedCommand)
              /\ flights' = Append(flights, NewFlight(trimmedCommand))
              /\ SessionAfter(trimmedCommand)
              /\ returned' = Subscribed
              /\ UNCHANGED <<impl, commandHistory, lastFinal, log>>

ExecuteCommandKeepsCase(command) ==
    IF IsProcessing
    THEN /\ returned' = ConcurrentExecutionError
         /\ flights' = [i \in 1..Len(flights) |-> [flights[i] EXCEPT !.rejects = TRUE]]
         /\ UNCHANGED <<impl, executionState, currentCommand, commandHistory,
                        lastFinal, log, sessionVars>>
    ELSE LET trimmedCommand == Trim(command) IN
         IF ~IsValidCommand(trimmedCommand)
         THEN /\ returned' = CreateCommandError("INVALID_COMMAND")
              /\ UNCHANGED <<impl, executionState, currentCommand, commandHistory,
                             flights, lastFinal, log, sessionVars>>
         ELSE /\ executionState' = "processing"
              /\ currentCommand' = Some(trimmedCommand)
              /\ flights' = Append(flights, NewFlight(trimmedCommand))
              /\ SessionAfter(trimmedCommand)
              /\ returned' = Subscribed
              /\ UNCHANGED <<impl, commandHistory, lastFinal, log>>

\* executeCommand(command, sessionId), subscribed to at once as every caller does.
\* The rejections are throwError: the caller's error callback runs inside the
\* subscribe and nothing of the service has changed.  The frame is the caller's.
ExecuteCommand(command) ==
    IF IsProcessing
    THEN /\ returned' = ConcurrentExecutionError
         /\ flights' = [i \in 1..Len(flights) |-> [flights[i] EXCEPT !.rejects = TRUE]]
         /\ UNCHANGED <<impl, executionState, currentCommand, commandHistory,
                        lastFinal, log, sessionVars>>
    ELSE LET trimmedCommand == ToLowerCase(Trim(command)) IN
         IF ~IsValidCommand(trimmedCommand)
         THEN /\ returned' = CreateCommandError("INVALID_COMMAND")
              /\ UNCHANGED <<impl, executionState, currentCommand, commandHistory,
                             flights, lastFinal, log, sessionVars>>
         ELSE /\ executionState' = "processing"
              /\ currentCommand' = Some(trimmedCommand)
              /\ flights' = Append(flights, NewFlight(trimmedCommand))
              /\ SessionAfter(trimmedCommand)
              /\ returned' = Subscribed
              /\ UNCHANGED <<impl, commandHistory, lastFinal, log>>

\* what the model still follows: the commands finalized, in flight and in delivery
Load == Len(log) + Len(flights) + (IF frame = NoFrame THEN 0 ELSE 1)

\* a submission from an event handler (a key press, a test)
Submit(inputs, maxLog) ==
    /\ frame = NoFrame
    /\ Load < maxLog
    /\ \E command \in inputs : ExecuteCommand(command)
    /\ UNCHANGED frame

\* a submission from inside the subscriber's next or error callback
CallbackSubmit(inputs, maxLog) ==
    /\ frame # NoFrame
    /\ frame.step = "callback"
    /\ frame.nested < MaxNested
    /\ Load < maxLog
    /\ \E command \in inputs : ExecuteCommand(command)
    /\ frame' = [frame EXCEPT !.nested = @ + 1]

----------------------------------------------------------------------------
(* The resolver's answer *)

\* the profile commands, which read a static resource with http.get
FetchCommands == {AVAILABLE_COMMANDS[i] : i \in {2, 3, 4, 5, 6, 7, 8}}

\* how a resolution in flight can end, by revision
\*   http:    the POST answers success, answers success: false (map throws), or
\*            fails with a status; the timeout is a step of its own
\*   offline: of(...) cannot fail; http.get can fail, and the map over its data
\*            can throw on data of another shape
Outcomes(f) ==
    IF impl = "http"
    THEN {"ok", "notOk", "http400", "http404", "http429", "http500", "http0"}
    ELSE IF Split(f.cmd)[1] \in FetchCommands
         THEN {"ok", "fetchError", "mapThrow"}
         ELSE {"ok"}

\* handleCommandError's code for what went wrong (http revision)
HandleCommandErrorCode(outcome) ==
    CASE outcome = "http400" -> "INVALID_INPUT"
      [] outcome = "http404" -> "COMMAND_NOT_FOUND"
      [] outcome = "http429" -> "RATE_LIMIT"
      [] outcome = "http500" -> "SERVER_ERROR"
      [] outcome = "http0"   -> "NETWORK_ERROR"
      [] outcome = "timeout" -> "TIMEOUT"
      [] OTHER               -> "UNKNOWN_ERROR"

ErrorOfNotRecognized(outcome) ==
    IF impl = "http"
    THEN CreateCommandError(HandleCommandErrorCode(outcome))
    ELSE CreateCommandError("INVALID_COMMAND")

\* the error the subscriber's error callback receives
ErrorOf(outcome) ==
    IF impl = "http"
    THEN CreateCommandError(HandleCommandErrorCode(outcome))
    ELSE CreateCommandError("EXECUTION_ERROR")

RemoveAt(s, i) == SubSeq(s, 1, i - 1) \o SubSeq(s, i + 1, Len(s))

\* The notification of flight i reaches the subscriber: next for "ok", otherwise
\* error.  In the http revision catchError has run handleCommandError first, which
\* sets the state to ERROR; the offline revision's catchError only wraps the error.
\* finalize has not run yet: it runs when the subscriber is torn down, after the
\* callback.
Deliver(i, outcome, data) ==
    LET f == flights[i]
        ok == outcome = "ok"
    IN  /\ flights' = RemoveAt(flights, i)
        /\ executionState' =
              IF impl = "http" /\ ~ok THEN "error" ELSE executionState
        /\ frame' = [step |-> "callback", cmd |-> f.cmd,
                     kind |-> IF ok THEN "next" ELSE "error",
                     error |-> IF ok THEN NoCall ELSE ErrorOf(outcome),
                     rejects |-> f.rejects, nested |-> 0, done |-> 0,
                     content |-> IF ok THEN ContentOf(f, data) ELSE f.content,
                     called |-> f.called,
                     outcome |-> outcome,
                     fetched |-> IF ok /\ ContentOf(f, data) # f.content
                                 THEN Some(data) ELSE Null]
        /\ UNCHANGED <<impl, currentCommand, commandHistory, returned, lastFinal, log,
                       sessionVars>>

\* the time flight f has waited reached, or passed, the request timeout
TimedOut(f) == f.age * TickMs >= RequestTimeout
Overdue(f)  == f.age * TickMs > RequestTimeout

\* the POST, the http.get or the delayed of(...) answers
Respond(resources) ==
    /\ frame = NoFrame
    /\ \E i \in 1..Len(flights) :
          /\ impl = "http" => ~Overdue(flights[i])
          /\ ~flights[i].patch
          /\ \E outcome \in Outcomes(flights[i]) :
                \E data \in resources : Deliver(i, outcome, data)

\* The PATCH of updatePreferences is answered.  An answer carries the preferences
\* that were sent and setPreferences stores them; a failure is caught and
\* updatePreferencesLocally stores the same.  The content then waits for delay(200).
PatchAnswers ==
    /\ frame = NoFrame
    /\ \E i \in 1..Len(flights) :
          /\ flights[i].patch
          /\ prefTheme' = flights[i].newPref
          /\ flights' = [flights EXCEPT ![i].patch = FALSE]
    /\ UNCHANGED <<impl, executionState, currentCommand, commandHistory, frame,
                   returned, lastFinal, log, sessionTheme, session, stored, now,
                   boots>>

\* timeout(this.requestTimeout) fires: only the http revision's pipeline has it
TimeoutFires ==
    /\ frame = NoFrame
    /\ impl = "http"
    /\ \E i \in 1..Len(flights) :
          /\ TimedOut(flights[i])
          /\ Deliver(i, "timeout", S_none)

\* a second passes with no answer; a due timeout fires before the next second
Tick ==
    /\ frame = NoFrame
    /\ flights # << >>
    /\ \A i \in 1..Len(flights) :
          /\ flights[i].age < MaxAge
          /\ impl = "http" => ~TimedOut(flights[i])
    /\ flights' = [i \in 1..Len(flights) |-> [flights[i] EXCEPT !.age = @ + 1]]
    /\ UNCHANGED <<impl, executionState, currentCommand, commandHistory, frame,
                   returned, lastFinal, log, sessionVars>>

----------------------------------------------------------------------------
(* finalize *)

Last(s) == s[Len(s)]

AddToHistoryEvictsNewest(history, command) ==
    IF history = << >> \/ Last(history) # command
    THEN IF Len(history) + 1 > HistoryCap
         THEN history
         ELSE Append(history, command)
    ELSE history

AddToHistoryNoDedup(history, command) ==
    LET newHistory == Append(history, command)
    IN  IF Len(newHistory) > HistoryCap THEN Tail(newHistory) ELSE newHistory

\* addToHistory: the last entry of an empty history is undefined, which differs
\* from every command
AddToHistory(history, command) ==
    IF history = << >> \/ Last(history) # command
    THEN LET newHistory == Append(history, command)
         IN  IF Len(newHistory) > HistoryCap THEN Tail(newHistory) ELSE newHistory
    ELSE history

FinalizeOrderHistoryFirst == <<"history", "state", "current">>

\* the statements of the finalize callback, in the order written
FinalizeOrder == <<"state", "current", "history">>

\* the ghost log: what was finalized, a repeat of the entry before it left out
Logged(l, command) ==
    IF l # << >> /\ Last(l) = command THEN l ELSE Append(l, command)

FinalStateKeepsError(kind) == IF kind = "error" THEN "error" ELSE "idle"

\* setExecutionState(CommandExecutionState.IDLE), whatever was delivered
FinalState(kind) == "idle"

AppendsOnFailure == FALSE

\* finalize's callback appends whatever the outcome was
AppendsOnFailureToo == TRUE

\* One statement of finalize(() => {...}).  It runs when the subscriber is torn
\* down: after the next callback and the completion, or after the error callback.
\* Each statement emits on a BehaviorSubject, whose subscribers run before the
\* next statement.
Finalize ==
    /\ frame # NoFrame
    /\ LET what == FinalizeOrder[frame.done + 1]
           closes == frame.done + 1 = Len(FinalizeOrder)
       IN  /\ frame' = IF closes THEN NoFrame
                       ELSE [frame EXCEPT !.step = "finalize", !.done = @ + 1]
           /\ executionState' = IF what = "state" THEN FinalState(frame.kind)
                                                  ELSE executionState
           /\ currentCommand' = IF what = "current" THEN Null ELSE currentCommand
           /\ IF what = "history"
              THEN LET appends == frame.kind = "next" \/ AppendsOnFailureToo
                       after == IF appends
                                THEN AddToHistory(commandHistory, frame.cmd)
                                ELSE commandHistory
                   IN  /\ commandHistory' = after
                       /\ lastFinal' = [kind |-> frame.kind, cmd |-> frame.cmd,
                                        appended |-> after # commandHistory]
                       /\ log' = Logged(log, frame.cmd)
              ELSE UNCHANGED <<commandHistory, lastFinal, log>>
    /\ UNCHANGED <<impl, flights, returned, sessionVars>>

\* clearHistory()
ClearHistory ==
    /\ frame = NoFrame
    /\ commandHistory' = << >>
    /\ log' = << >>
    /\ lastFinal' = NoFinal
    /\ UNCHANGED <<impl, executionState, currentCommand, flights, frame, returned,
                   sessionVars>>

----------------------------------------------------------------------------
(* CommandHistoryService *)

N_help    == <<"h","e","l","p">>
N_HelpPad == <<" ","H","e","l","p"," ">>
N_skills  == <<"s","k","i","l","l","s">>
N_blank   == <<" ">>
N_empty   == << >>

NavInputs  == {N_help, N_HelpPad, N_skills, N_blank, N_empty}
TempInputs == {<<"s","u">>, << >>}

\* the history arrays importHistory is given: empty, with a repeat, longer
Imports == {<< >>, <<N_help, N_help>>, <<N_skills, N_help, N_skills>>}

\* array.slice(-n)
SliceLast(s, n) == IF Len(s) <= n THEN s ELSE SubSeq(s, Len(s) - n + 1, Len(s))

\* a run of navigation calls starts; the ghost notes where the cursor is
StartWalk(from, index, history) ==
    [from |-> from, on |-> index = Len(history), steps |-> << >>]

Walked(op, ret) == [walk EXCEPT !.steps = Append(@, [op |-> op, ret |-> ret])]

AddCommandKeepsCursor(command) ==
    LET trimmed == Trim(command)
        currentHistory == navHistory
        newHistory == Append(currentHistory, trimmed)
    IN  IF trimmed = << >>
        THEN /\ walk' = StartWalk("addCommand", currentIndex, navHistory)
             /\ UNCHANGED <<navHistory, currentIndex, tempCommand, navReturned>>
        ELSE IF currentHistory = << >> \/ Last(currentHistory) # trimmed
        THEN LET after == IF Len(newHistory) > MaxHistorySize
                          THEN Tail(newHistory) ELSE newHistory
             IN  /\ navHistory' = after
                 /\ currentIndex' = Len(after)
                 /\ tempCommand' = << >>
                 /\ walk' = StartWalk("addCommand", Len(after), after)
                 /\ UNCHANGED navReturned
        ELSE /\ walk' = StartWalk("addCommand", currentIndex, navHistory)
             /\ UNCHANGED <<navHistory, currentIndex, tempCommand, navReturned>>

\* addCommand(command): a blank command returns at once
AddCommand(command) ==
    LET trimmed == Trim(command)
        currentHistory == navHistory
        newHistory == Append(currentHistory, trimmed)
    IN  IF trimmed = << >>
        THEN /\ walk' = StartWalk("addCommand", currentIndex, navHistory)
             /\ UNCHANGED <<navHistory, currentIndex, tempCommand, navReturned>>
        ELSE LET after == IF currentHistory = << >> \/ Last(currentHistory) # trimmed
                          THEN IF Len(newHistory) > MaxHistorySize
                               THEN Tail(newHistory) ELSE newHistory
                          ELSE currentHistory
             IN  /\ navHistory' = after
                 /\ currentIndex' = Len(after)
                 /\ tempCommand' = << >>
                 /\ walk' = StartWalk("addCommand", Len(after), after)
                 /\ UNCHANGED navReturned

AddCommandCall ==
    /\ Len(navHistory) < MaxNavLen
    /\ \E command \in NavInputs : AddCommand(command)
    /\ UNCHANGED <<serviceVars, queryVars, termVars, inputVars>>

GetPreviousCommandWraps ==
    IF navHistory = << >>
    THEN /\ navReturned' = Null
         /\ UNCHANGED <<navHistory, currentIndex, tempCommand>>
    ELSE LET index == IF currentIndex > 0 THEN currentIndex - 1
                                          ELSE Len(navHistory) - 1
         IN  /\ currentIndex' = index
             /\ navReturned' = Some(navHistory[index + 1])
             /\ UNCHANGED <<navHistory, tempCommand>>

\* getPreviousCommand(): history[i] of the code is navHistory[i + 1] here
GetPreviousCommand ==
    IF navHistory = << >>
    THEN /\ navReturned' = Null
         /\ UNCHANGED <<navHistory, currentIndex, tempCommand>>
    ELSE IF currentIndex > 0
    THEN /\ currentIndex' = currentIndex - 1
         /\ navReturned' = Some(navHistory[currentIndex' + 1])
         /\ UNCHANGED <<navHistory, tempCommand>>
    ELSE /\ navReturned' = Null
         /\ UNCHANGED <<navHistory, currentIndex, tempCommand>>

GetPreviousCommandCall ==
    /\ Len(walk.steps) < MaxWalk
    /\ GetPreviousCommand
    /\ walk' = Walked("previous", navReturned')
    /\ UNCHANGED <<serviceVars, queryVars, termVars, inputVars>>

\* getNextCommand()
GetNextCommand ==
    IF navHistory = << >>
    THEN /\ navReturned' = Null
         /\ UNCHANGED <<navHistory, currentIndex, tempCommand>>
    ELSE IF currentIndex < Len(navHistory) - 1
    THEN /\ currentIndex' = currentIndex + 1
         /\ navReturned' = Some(navHistory[currentIndex' + 1])
         /\ UNCHANGED <<navHistory, tempCommand>>
    ELSE IF currentIndex = Len(navHistory) - 1
    THEN /\ currentIndex' = Len(navHistory)
         /\ navReturned' = Some(tempCommand)
         /\ UNCHANGED <<navHistory, tempCommand>>
    ELSE /\ navReturned' = Null
         /\ UNCHANGED <<navHistory, currentIndex, tempCommand>>

GetNextCommandCall ==
    /\ Len(walk.steps) < MaxWalk
    /\ GetNextCommand
    /\ walk' = Walked("next", navReturned')
    /\ UNCHANGED <<serviceVars, queryVars, termVars, inputVars>>

\* setTempCommand(command)
SetTempCommand ==
    /\ \E command \in TempInputs :
          /\ tempCommand # command
          /\ tempCommand' = command
    /\ walk' = StartWalk("setTempCommand", currentIndex, navHistory)
    /\ UNCHANGED <<navHistory, currentIndex, navReturned>>
    /\ UNCHANGED <<serviceVars, queryVars, termVars, inputVars>>

\* resetNavigation()
ResetNavigation ==
    /\ currentIndex' = Len(navHistory)
    /\ tempCommand' = << >>
    /\ walk' = StartWalk("resetNavigation", Len(navHistory), navHistory)
    /\ UNCHANGED <<navHistory, navReturned>>
    /\ UNCHANGED <<serviceVars, queryVars, termVars, inputVars>>

\* clearHistory() of CommandHistoryService
NavClearHistory ==
    /\ navHistory' = << >>
    /\ currentIndex' = 0
    /\ tempCommand' = << >>
    /\ walk' = StartWalk("clearHistory", 0, << >>)
    /\ UNCHANGED navReturned
    /\ UNCHANGED <<serviceVars, queryVars, termVars, inputVars>>

\* importHistory(jsonData) of a text that parses to {history: [...]}
ImportHistory ==
    /\ \E history \in Imports :
          LET kept == SliceLast(history, MaxHistorySize)
          IN  /\ Len(kept) <= MaxNavLen
              /\ navHistory' = kept
              /\ currentIndex' = Len(kept)
              /\ walk' = StartWalk("importHistory", Len(kept), kept)
    /\ tempCommand' = << >>
    /\ UNCHANGED navReturned
    /\ UNCHANGED <<serviceVars, queryVars, termVars, inputVars>>

----------------------------------------------------------------------------
(* OutputFormatterService *)

\* JavaScript values
JString(x)  == [t |-> "string", s |-> x]
JNumber(x)  == [t |-> "number", n |-> x]
JBoolean(x) == [t |-> "boolean", b |-> x]
JObject(x)  == [t |-> "object", entries |-> x]
JUndefined  == [t |-> "undefined"]

\* v is falsy: '', 0, false, undefined
Falsy(v) ==
    CASE v.t = "string"    -> v.s = ""
      [] v.t = "number"    -> v.n = 0
      [] v.t = "boolean"   -> ~v.b
      [] v.t = "undefined" -> TRUE
      [] OTHER             -> FALSE

\* String(v)
StringOf(v) ==
    CASE v.t = "string"    -> v.s
      [] v.t = "number"    -> ToString(v.n)
      [] v.t = "boolean"   -> IF v.b THEN "true" ELSE "false"
      [] v.t = "undefined" -> "undefined"
      [] OTHER             -> "[object Object]"

\* item[key] of an object whose entries are key and value pairs; the keys asked
\* for here are no names of members of Object.prototype
Get(item, key) ==
    IF \E i \in 1..Len(item.entries) : item.entries[i].key = key
    THEN item.entries[CHOOSE i \in 1..Len(item.entries) :
                         item.entries[i].key = key].value
    ELSE JUndefined

\* v || w
Or(v, w) == IF Falsy(v) THEN w ELSE v

\* the headers argument left out
NoHeaders == [given |-> FALSE, names |-> << >>]
Headers(names) == [given |-> TRUE, names |-> names]

\* processTableData(data, headers); [] is truthy, so empty headers count as given
ProcessTableData(data, headers) ==
    IF data = << >>
    THEN [headers |-> << >>, rows |-> << >>]
    ELSE IF headers.given
    THEN [headers |-> headers.names,
          rows |-> [i \in 1..Len(data) |->
                      IF data[i].t = "object"
                      THEN [j \in 1..Len(headers.names) |->
                              StringOf(Or(Get(data[i], headers.names[j]), JString("")))]
                      ELSE [j \in 1..Len(headers.names) |->
                              IF j = 1 THEN StringOf(data[i]) ELSE ""]]]
    ELSE IF data[1].t = "object"
    THEN LET detectedHeaders ==
                [j \in 1..Len(data[1].entries) |-> data[1].entries[j].key]
         IN  [headers |-> detectedHeaders,
              rows |-> [i \in 1..Len(data) |->
                          [j \in 1..Len(detectedHeaders) |->
                              IF data[i].t = "object"
                              THEN StringOf(Or(Get(data[i], detectedHeaders[j]),
                                               JString("")))
                              ELSE StringOf(Or(JUndefined, JString("")))]]]
    ELSE [headers |-> <<"Value">>,
          rows |-> [i \in 1..Len(data) |-> <<StringOf(data[i])>>]]

\* formatTable(data, headers), the formatting left out
FormatTable(data, headers) ==
    [content |-> ProcessTableData(data, headers), type |-> "table"]

FormatPaginatedInclusive(content, currentPage, totalPages) ==
    [content |-> content, type |-> "text",
     pagination |-> [current |-> currentPage, total |-> totalPages,
                     hasNext |-> currentPage <= totalPages,
                     hasPrevious |-> currentPage >= 1]]

\* formatPaginated(content, currentPage, totalPages), the formatting left out
FormatPaginated(content, currentPage, totalPages) ==
    [content |-> content, type |-> "text",
     pagination |-> [current |-> currentPage, total |-> totalPages,
                     hasNext |-> currentPage < totalPages,
                     hasPrevious |-> currentPage > 1]]

\* the grave accent, a character that a string of TLA+ cannot hold
Backquote == "grave"

\* the characters the dot of a regular expression does not match
LineTerminators == {"\n", "\r"}

\* where delim stands in s at i
At(s, i, delim) ==
    i + Len(delim) - 1 <= Len(s) /\ SubSeq(s, i, i + Len(delim) - 1) = delim

\* the places j >= from where delim stands with no line terminator before it
Closings(s, from, delim) ==
    {j \in from..Len(s) :
        /\ At(s, j, delim)
        /\ \A k \in from..(j - 1) : s[k] \notin LineTerminators}

\* s.replace(/D(.*?)D/g, '<tag>$1</tag>') from place i on, D being delim: the
\* leftmost match is taken, it ends at the nearest closing D, and the search goes
\* on behind it
RECURSIVE ReplaceDelimited(_, _, _, _, _)
ReplaceDelimited(s, i, delim, open, close) ==
    IF i > Len(s) THEN << >>
    ELSE IF At(s, i, delim) /\ Closings(s, i + Len(delim), delim) # {}
    THEN LET from == i + Len(delim)
             j == CHOOSE x \in Closings(s, from, delim) :
                     \A y \in Closings(s, from, delim) : x <= y
         IN  open \o SubSeq(s, from, j - 1) \o close
                  \o ReplaceDelimited(s, j + Len(delim), delim, open, close)
    ELSE <<s[i]>> \o ReplaceDelimited(s, i + 1, delim, open, close)

\* s.replace(/\n/g, '<br>')
RECURSIVE ReplaceNewlines(_)
ReplaceNewlines(s) ==
    IF s = << >> THEN << >>
    ELSE (IF Head(s) = "\n" THEN <<"<","b","r",">">> ELSE <<Head(s)>>)
            \o ReplaceNewlines(Tail(s))

ProcessTextContentTrimmed(content) == Trim(content)

\* processTextContent(content): bold, then italic, then inline code, then line
\* breaks
ProcessTextContent(content) ==
    LET bold == ReplaceDelimited(content, 1, <<"*","*">>,
                    <<"<","s","t","r","o","n","g",">">>,
                    <<"<","/","s","t","r","o","n","g",">">>)
        italic == ReplaceDelimited(bold, 1, <<"*">>,
                    <<"<","e","m",">">>, <<"<","/","e","m",">">>)
        code == ReplaceDelimited(italic, 1, <<Backquote>>,
                    <<"<","c","o","d","e",">">>, <<"<","/","c","o","d","e",">">>)
    IN  ReplaceNewlines(code)

\* formatText(content), the formatting left out
FormatText(content) == [content |-> ProcessTextContent(content), type |-> "text"]

\* the texts formatted
TextAlphabet == {"a", " ", "*", Backquote, "\n"}
RECURSIVE TextsOf(_)
TextsOf(n) ==
    IF n = 0 THEN {<< >>}
    ELSE TextsOf(n - 1)
            \cup {Append(t, c) : t \in {u \in TextsOf(n - 1) : Len(u) = n - 1},
                                 c \in TextAlphabet}
Texts == TextsOf(MaxText)

\* the tables formatted
Row_a == JObject(<<[key |-> "name", value |-> JString("a")],
                   [key |-> "count", value |-> JNumber(0)]>>)
Row_b == JObject(<<[key |-> "name", value |-> JString("b")]>>)
Row_c == JObject(<<[key |-> "count", value |-> JNumber(2)],
                   [key |-> "done", value |-> JBoolean(FALSE)],
                   [key |-> "name", value |-> JString("")]>>)
Row_x == JString("x")
TableItems == {Row_a, Row_b, Row_c, Row_x}

RECURSIVE TablesOf(_)
TablesOf(n) ==
    IF n = 0 THEN {<< >>}
    ELSE TablesOf(n - 1)
            \cup {Append(d, r) : d \in {u \in TablesOf(n - 1) : Len(u) = n - 1},
                                 r \in TableItems}
Tables == TablesOf(MaxRows)

HeaderChoices == {NoHeaders, Headers(<< >>), Headers(<<"name">>),
                  Headers(<<"name", "count">>), Headers(<<"count", "done", "name">>)}

Pages == (0 - 1)..MaxPage

\* the arguments of one call of a method of the formatter
FormatArgs ==
    {[of |-> "text", content |-> content] : content \in Texts}
    \cup {[of |-> "table", data |-> data, headers |-> headers] :
             data \in Tables, headers \in HeaderChoices}
    \cup {[of |-> "pages", content |-> content, currentPage |-> currentPage,
            totalPages |-> totalPages] :
             content \in {<<"a">>, <<"*", "a", "*">>},
             currentPage \in Pages, totalPages \in Pages}

InitFormat ==
    /\ ServiceInit
    /\ impl = "offline"
    /\ SessionInit
    /\ TermInit
    /\ NavInit
    /\ InputInit
    /\ \E arg \in FormatArgs : call = [NoQuery EXCEPT !.arg = arg]

FormatTextCall ==
    /\ call.fn = "none"
    /\ call.arg.of = "text"
    /\ call' = [call EXCEPT !.fn = "formatText",
                            !.result = FormatText(call.arg.content)]
    /\ UNCHANGED <<serviceVars, navVars, termVars, inputVars>>

FormatTableCall ==
    /\ call.fn = "none"
    /\ call.arg.of = "table"
    /\ call' = [call EXCEPT !.fn = "formatTable",
                            !.result = FormatTable(call.arg.data, call.arg.headers)]
    /\ UNCHANGED <<serviceVars, navVars, termVars, inputVars>>

FormatPaginatedCall ==
    /\ call.fn = "none"
    /\ call.arg.of = "pages"
    /\ call' = [call EXCEPT !.fn = "formatPaginated",
                            !.result = FormatPaginated(call.arg.content,
                                                       call.arg.currentPage,
                                                       call.arg.totalPages)]
    /\ UNCHANGED <<serviceVars, navVars, termVars, inputVars>>

----------------------------------------------------------------------------
(* TerminalContainerComponent *)

C_clear == <<"c","l","e","a","r">>

\* the items pushed on commandHistory
CommandItem(command) == [type |-> "command", command |-> command]
OutputItem(content)  == [type |-> "output", content |-> content]
ErrorItem(code)      == [type |-> "error", code |-> code]
SystemItem(message)  == [type |-> "system", text |-> message]

HandleBuiltInCommandAsTyped(command) == Split(command)[1] = C_clear

\* handleBuiltInCommand(command): true for 'clear', which it carries out
HandleBuiltInCommand(command) == Split(ToLowerCase(command))[1] = C_clear

\* clearTerminal()
ClearTerminal == AddWelcomeMessage(<< >>, termSession)

\* handleCommandError(error) reads error.error.message: of a CommandError it pushes
\* the error item, of the Error of the single-flight guard, which has no error
\* member, the read throws and nothing is pushed
HandleCommandError(items, error) ==
    IF error.kind = "CommandError" THEN Append(items, ErrorItem(error.code)) ELSE items

\* the subscriber of executeCommand: handleCommandOutput or handleCommandError
Shown(items, fr) ==
    IF fr.kind = "next"
    THEN Append(items, OutputItem(fr.content))
    ELSE HandleCommandError(items, fr.error)

\* the items a call of executeCommand can still add fit the display
Room(k) == Len(display) + Len(flights) + k <= MaxDisplay

\* executeCommand(command) of the container.  A rejection of the service is a
\* throwError, whose error callback runs inside the subscribe.
TermExecuteCommand(command) ==
    LET trimmedCommand == Trim(command) IN
    /\ frame = NoFrame
    /\ Load < MaxTermLog
    /\ HandleBuiltInCommand(trimmedCommand) \/ Room(2)
    /\ IF trimmedCommand = << >>
       THEN UNCHANGED <<serviceVars, display>>
       ELSE IF HandleBuiltInCommand(trimmedCommand)
       THEN /\ display' = ClearTerminal
            /\ UNCHANGED serviceVars
       ELSE IF termSession # Null
       THEN /\ ExecuteCommand(trimmedCommand)
            /\ display' =
                  IF returned' = Subscribed
                  THEN Append(display, CommandItem(trimmedCommand))
                  ELSE HandleCommandError(
                          Append(display, CommandItem(trimmedCommand)), returned')
            /\ UNCHANGED frame
       ELSE /\ display' = Append(Append(display, CommandItem(trimmedCommand)),
                                 ErrorItem("NO_SESSION"))
            /\ UNCHANGED serviceVars
    /\ UNCHANGED <<termSession, queryVars, navVars, inputVars>>

TermSubmit == \E command \in TermInputs : TermExecuteCommand(command)

\* an answer, or the timeout, reaches the container's subscriber
TermRespond ==
    /\ \/ Respond({S_full})
       \/ TimeoutFires
    /\ display' = Shown(display, frame')
    /\ UNCHANGED <<termSession, queryVars, navVars, inputVars>>

CtrlLCancels ==
    /\ frame = NoFrame
    /\ display' = ClearTerminal
    /\ flights' = << >>
    /\ executionState' = "idle"
    /\ currentCommand' = Null
    /\ UNCHANGED <<impl, commandHistory, frame, returned, lastFinal, log, sessionVars,
                   termSession, queryVars, navVars, inputVars>>

\* onKeydown: Ctrl+L calls clearTerminal, whatever the execution state
CtrlL ==
    /\ frame = NoFrame
    /\ display' = ClearTerminal
    /\ UNCHANGED <<serviceVars, termSession, queryVars, navVars, inputVars>>

CtrlCAborts ==
    /\ frame = NoFrame
    /\ IsProcessing
    /\ Room(1)
    /\ display' = Append(display, SystemItem("^C"))
    /\ flights' = << >>
    /\ executionState' = "idle"
    /\ currentCommand' = Null
    /\ UNCHANGED <<impl, commandHistory, frame, returned, lastFinal, log, sessionVars,
                   termSession, queryVars, navVars, inputVars>>

\* onKeydown: Ctrl+C, with isProcessing as the subscription to executionState$
\* last set it
CtrlC ==
    /\ frame = NoFrame
    /\ IsProcessing
    /\ Room(1)
    /\ display' = Append(display, SystemItem("^C"))
    /\ UNCHANGED <<serviceVars, termSession, queryVars, navVars, inputVars>>

NgOnDestroyDropsFlight ==
    /\ frame = NoFrame
    /\ flights # << >>
    /\ flights' = Tail(flights)
    /\ UNCHANGED <<impl, executionState, currentCommand, commandHistory, frame,
                   returned, lastFinal, log, sessionVars>>

\* ngOnDestroy with a command pending: destroy$.next() ends takeUntil, which
\* unsubscribes the pipe of executeCommand.  Neither callback runs; the delay and
\* the request are cancelled; finalize's callback runs on the unsubscription, its
\* statements taken by Finalize.  The subscriptions are torn down oldest first.
NgOnDestroy ==
    /\ frame = NoFrame
    /\ flights # << >>
    /\ LET f == Head(flights)
       IN  frame' = [step |-> "finalize", cmd |-> f.cmd, kind |-> "unsubscribed",
                     error |-> NoCall, rejects |-> f.rejects, nested |-> 0,
                     done |-> 0, content |-> f.content, called |-> f.called,
                     outcome |-> "unsubscribed", fetched |-> Null]
    /\ flights' = Tail(flights)
    /\ UNCHANGED <<impl, executionState, currentCommand, commandHistory,
                   returned, lastFinal, log, sessionVars>>

----------------------------------------------------------------------------
(* The page load, the clock and endSession *)

\* The page is loaded: every service and the component are constructed anew and
\* only localStorage is kept.  SessionService's constructor runs initializeSession
\* and loadStoredPreferences; the stored preferences are those last set.
PageLoad ==
    /\ frame = NoFrame
    /\ boots < MaxBoots
    /\ boots' = boots + 1
    /\ session' = InitializeSession(stored, boots + 1, now).session
    /\ stored' = InitializeSession(stored, boots + 1, now).stored
    /\ sessionTheme' = prefTheme
    /\ termSession' = Seen(session', Null)
    /\ display' = AddWelcomeMessage(<< >>, termSession')
    /\ executionState' = "idle"
    /\ currentCommand' = Null
    /\ commandHistory' = << >>
    /\ flights' = << >>
    /\ returned' = NoCall
    /\ lastFinal' = NoFinal
    /\ log' = << >>
    /\ call' = NoQuery
    /\ navHistory' = << >>
    /\ currentIndex' = -1
    /\ tempCommand' = << >>
    /\ navReturned' = Null
    /\ walk' = [from |-> "constructor", on |-> FALSE, steps |-> << >>]
    /\ inputHistory' = << >>
    /\ historyIndex' = -1
    /\ inputCommand' = << >>
    /\ inputTemp' = << >>
    /\ keys' = [t |-> << >>, live |-> FALSE, steps |-> << >>]
    /\ UNCHANGED <<impl, frame, prefTheme, now>>

\* half a day passes
TimePasses ==
    /\ frame = NoFrame
    /\ now + ClockStepMs <= MaxClockSteps * ClockStepMs
    /\ now' = now + ClockStepMs
    /\ UNCHANGED <<impl, executionState, currentCommand, commandHistory, flights,
                   frame, returned, lastFinal, log, sessionTheme, prefTheme,
                   session, stored, boots, otherVars>>

\* endSession(): the DELETE is sent and forgotten; the container keeps the id
\* and the welcome message it saw
EndSession ==
    /\ frame = NoFrame
    /\ stored' = Null
    /\ session' = Null
    /\ UNCHANGED <<impl, executionState, currentCommand, commandHistory, flights,
                   frame, returned, lastFinal, log, sessionTheme, prefTheme,
                   now, boots, otherVars>>

----------------------------------------------------------------------------
(* CommandInputComponent *)

\* what is typed into the input, and the arrays commandHistory$ emits
InputTexts == {<< >>, <<"s","u">>, R_help}
InputEntries == {R_help, R_skillsArg}

RECURSIVE InputHistoriesOf(_)
InputHistoriesOf(n) ==
    IF n = 0 THEN {<< >>}
    ELSE LET shorter == InputHistoriesOf(n - 1)
         IN  shorter \cup
             {Append(h, e) : h \in {x \in shorter : Len(x) = n - 1}, e \in InputEntries}

\* CommandService keeps no two equal entries next to each other
InputHistories ==
    {h \in InputHistoriesOf(MaxInputLen) : \A i \in 1..(Len(h) - 1) : h[i] # h[i + 1]}

NavigateHistorySavesAlways(direction) ==
    LET length == Len(inputHistory) IN
    IF length = 0
    THEN UNCHANGED <<historyIndex, inputCommand, inputTemp>>
    ELSE IF direction = "up"
    THEN /\ inputTemp' = inputCommand
         /\ IF historyIndex > 0
            THEN /\ historyIndex' = historyIndex - 1
                 /\ inputCommand' = inputHistory[historyIndex]
            ELSE UNCHANGED <<historyIndex, inputCommand>>
    ELSE /\ UNCHANGED inputTemp
         /\ IF historyIndex < length - 1
            THEN /\ historyIndex' = historyIndex + 1
                 /\ inputCommand' = inputHistory[historyIndex + 2]
            ELSE IF historyIndex = length - 1
            THEN /\ historyIndex' = length
                 /\ inputCommand' = inputTemp
            ELSE UNCHANGED <<historyIndex, inputCommand>>

\* navigateHistory(direction); the arrays are indexed from 0 in the source
NavigateHistory(direction) ==
    LET length == Len(inputHistory) IN
    IF length = 0
    THEN UNCHANGED <<historyIndex, inputCommand, inputTemp>>
    ELSE IF direction = "up"
    THEN /\ inputTemp' = IF historyIndex = length THEN inputCommand ELSE inputTemp
         /\ IF historyIndex > 0
            THEN /\ historyIndex' = historyIndex - 1
                 /\ inputCommand' = inputHistory[historyIndex]
            ELSE UNCHANGED <<historyIndex, inputCommand>>
    ELSE /\ UNCHANGED inputTemp
         /\ IF historyIndex < length - 1
            THEN /\ historyIndex' = historyIndex + 1
                 /\ inputCommand' = inputHistory[historyIndex + 2]
            ELSE IF historyIndex = length - 1
            THEN /\ historyIndex' = length
                 /\ inputCommand' = inputTemp
            ELSE UNCHANGED <<historyIndex, inputCommand>>

\* onKeydown: ArrowUp and ArrowDown
OnKeydown(direction) ==
    /\ Len(keys.steps) < MaxKeys
    /\ NavigateHistory(direction)
    /\ keys' = [keys EXCEPT !.steps = Append(@, direction)]
    /\ UNCHANGED <<inputHistory, serviceVars, queryVars, navVars, termVars>>

ArrowUp == OnKeydown("up")
ArrowDown == OnKeydown("down")

\* onInput: the text of the input element becomes currentCommand
OnInput ==
    /\ \E text \in InputTexts :
          /\ inputCommand' = text
          /\ keys' = [t |-> text, live |-> historyIndex = Len(inputHistory),
                      steps |-> << >>]
    /\ UNCHANGED <<inputHistory, historyIndex, inputTemp,
                   serviceVars, queryVars, navVars, termVars>>

\* the subscriber of commandHistory$ set up by subscribeToCommandHistory: it runs
\* at ngOnInit and whenever CommandService publishes its history
HistoryEmits ==
    /\ \E history \in InputHistories :
          /\ inputHistory' = history
          /\ historyIndex' = Len(history)
    /\ keys' = [t |-> inputCommand, live |-> TRUE, steps |-> << >>]
    /\ UNCHANGED <<inputCommand, inputTemp, serviceVars, queryVars, navVars, termVars>>

\* handleEnterKey with no suggestion selected: submitCommand emits the trimmed
\* text to the container, then clearInput and resetHistoryNavigation
HandleEnterKey ==
    /\ Trim(inputCommand) # << >>
    /\ inputCommand' = << >>
    /\ historyIndex' = Len(inputHistory)
    /\ inputTemp' = << >>
    /\ keys' = [t |-> << >>, live |-> TRUE, steps |-> << >>]
    /\ UNCHANGED <<inputHistory, serviceVars, queryVars, navVars, termVars>>

----------------------------------------------------------------------------
(* Specifications *)

Next ==
    \/ Submit(Inputs, MaxLog) /\ UNCHANGED otherVars
    \/ CallbackSubmit(Inputs, MaxLog) /\ UNCHANGED otherVars
    \/ Respond({S_full}) /\ UNCHANGED otherVars
    \/ TimeoutFires /\ UNCHANGED otherVars
    \/ Tick /\ UNCHANGED otherVars
    \/ Finalize /\ UNCHANGED otherVars
    \/ ClearHistory /\ UNCHANGED otherVars

Spec == Init /\ [][Next]_vars

\* The capacity of the history: three texts, answers arrive before a second
\* passes, and callbacks submit nothing, so that the log can grow past the cap.
NextLong ==
    \/ Submit(LongInputs, MaxLongLog) /\ UNCHANGED otherVars
    \/ Respond({S_full}) /\ UNCHANGED otherVars
    \/ Finalize /\ UNCHANGED otherVars
    \/ ClearHistory /\ UNCHANGED otherVars

SpecLong == Init /\ [][NextLong]_vars

\* The offline revision given theme commands, with the session of the page load
\* or, endSession() having been called, with none.
InitTheme ==
    /\ ServiceInit
    /\ impl = "offline"
    /\ sessionTheme = T_dark
    /\ prefTheme = T_dark
    /\ now = 0
    /\ boots = 1
    /\ \/ session = Some(OfflineSession(1, 0)) /\ stored = session
       \/ session = Null /\ stored = Null
    /\ termSession = Seen(Some(OfflineSession(1, 0)), Null)
    /\ display = AddWelcomeMessage(<< >>, termSession)
    /\ call = NoQuery
    /\ NavInit
    /\ InputInit

NextTheme ==
    \/ Submit(ThemeInputs, MaxThemeLog) /\ UNCHANGED otherVars
    \/ PatchAnswers /\ UNCHANGED otherVars
    \/ Respond({S_full}) /\ UNCHANGED otherVars
    \/ Finalize /\ UNCHANGED otherVars
    \/ ClearHistory /\ UNCHANGED otherVars

SpecTheme == InitTheme /\ [][NextTheme]_vars

\* The offline revision given profile commands, the skills resource being any of
\* SkillsResources.
InitAssets == Init /\ impl = "offline"

NextAssets ==
    \/ Submit(AssetInputs, MaxAssetLog) /\ UNCHANGED otherVars
    \/ Respond(SkillsResources) /\ UNCHANGED otherVars
    \/ Finalize /\ UNCHANGED otherVars
    \/ ClearHistory /\ UNCHANGED otherVars

SpecAssets == InitAssets /\ [][NextAssets]_vars

\* The offline revision with a caller that may be destroyed while its command is
\* pending; the submissions after that come from the next component.
NextDestroy ==
    \/ Submit(AssetInputs, MaxAssetLog) /\ UNCHANGED otherVars
    \/ Respond(SkillsResources) /\ UNCHANGED otherVars
    \/ NgOnDestroy /\ UNCHANGED otherVars
    \/ Finalize /\ UNCHANGED otherVars
    \/ ClearHistory /\ UNCHANGED otherVars

SpecDestroy == InitAssets /\ [][NextDestroy]_vars

\* The container with both revisions of CommandService behind it and the clock
\* running.
NextTerminal ==
    \/ TermSubmit
    \/ TermRespond
    \/ Tick /\ UNCHANGED otherVars
    \/ Finalize /\ UNCHANGED otherVars
    \/ CtrlC
    \/ TimePasses

SpecTerminal == Init /\ [][NextTerminal]_vars

\* The container with the keyboard shortcut that clears the display.
NextClear ==
    \/ TermSubmit
    \/ TermRespond
    \/ Tick /\ UNCHANGED otherVars
    \/ Finalize /\ UNCHANGED otherVars
    \/ CtrlL

SpecClear == Init /\ [][NextClear]_vars

\* OutputFormatterService, each method called on any of its inputs.
NextFormat ==
    \/ FormatTextCall
    \/ FormatTableCall
    \/ FormatPaginatedCall

SpecFormat == InitFormat /\ [][NextFormat]_vars

\* SessionService over page loads, with the clock running.
InitSession == Init /\ impl = "offline"

NextSession ==
    \/ PageLoad
    \/ TimePasses
    \/ EndSession

SpecSession == InitSession /\ [][NextSession]_vars

\* The side-effect free methods, each called once on a text of QueryArgs.
NextQuery ==
    \/ IsValidCommandCall
    \/ GetCommandSuggestionsCall

\* The command input: typing, the arrow keys, Enter and the history published by
\* CommandService.
NextInput ==
    \/ ArrowUp
    \/ ArrowDown
    \/ OnInput
    \/ HistoryEmits
    \/ HandleEnterKey

InitInput == Init /\ impl = "offline"

SpecInput == InitInput /\ [][NextInput]_vars

SpecQuery == InitQuery /\ [][NextQuery]_vars

\* CommandHistoryService alone, called in any order.
NextNav ==
    \/ AddCommandCall
    \/ GetPreviousCommandCall
    \/ GetNextCommandCall
    \/ SetTempCommand
    \/ ResetNavigation
    \/ NavClearHistory
    \/ ImportHistory

\* the revision of CommandService is of no matter to CommandHistoryService
InitNav == Init /\ impl = "offline"

SpecNav == InitNav /\ [][NextNav]_vars

TypeOK ==
    /\ impl \in {"http", "offline"}
    /\ executionState \in {"idle", "processing", "error"}
    /\ Cardinality(currentCommand) <= 1
    /\ Len(commandHistory) <= HistoryCap

----------------------------------------------------------------------------
(* Vocabulary of the properties *)

Normalize(command) == ToLowerCase(Trim(command))

\* the texts submitted that executeCommand's validation accepts, and the others
ValidInputs   == {c \in Inputs : IsValidCommand(Normalize(c))}
InvalidInputs == Inputs \ ValidInputs

\* trimmed and lower-case, said without trim() and toLowerCase()
IsNormalized(s) ==
    /\ \A i \in 1..Len(s) : \A j \in 1..Len(Upper) : s[i] # Upper[j]
    /\ s # << >> => (s[1] \notin WhiteSpace /\ s[Len(s)] \notin WhiteSpace)

\* nothing in flight and no answer in delivery
Quiescent == frame = NoFrame /\ flights = << >>

\* the step that ends the delivery of an answer
Closes == frame # NoFrame /\ frame' = NoFrame

\* the step that runs finalize's addToHistory statement
HistoryStep ==
    /\ frame # NoFrame
    /\ frame' # frame
    /\ frame.done = 2

NoAdjacentDuplicates(h) == \A i \in 1..(Len(h) - 1) : h[i] # h[i + 1]

\* the last n entries of s, all of s when it is shorter
LastN(s, n) == IF Len(s) <= n THEN s ELSE SubSeq(s, Len(s) - n + 1, Len(s))

InvalidCommandError ==
    [kind |-> "CommandError", code |-> "INVALID_COMMAND",
     suggestion |-> "Type 'help' to see available commands"]

\* the same character, or the two cases of one letter
SameLetter(a, b) ==
    \/ a = b
    \/ \E i \in 1..Len(Upper) : {a, b} = {Upper[i], LowerOf[i]}

\* equal but for the case of the letters
SameText(s, t) ==
    /\ Len(s) = Len(t)
    /\ \A i \in 1..Len(s) : SameLetter(s[i], t[i])

\* p is a prefix of c but for the case of the letters
PrefixOf(p, c) ==
    /\ Len(p) <= Len(c)
    /\ \A i \in 1..Len(p) : SameLetter(p[i], c[i])

\* the first whitespace-delimited token of s, empty when s has none
FirstToken(s) ==
    LET t == TrimStart(s)
        stops == {i \in 1..Len(t) : t[i] \in WhiteSpace}
        end == IF stops = {} THEN Len(t)
               ELSE (CHOOSE i \in stops : \A j \in stops : i <= j) - 1
    IN  SubSeq(t, 1, end)

\* the token is a command name, in whatever case
IsRegistered(token) == \E c \in Registered : SameText(token, c)

\* the normalized command is 'theme <x>'; x is its second token
IsThemeWithArg(cmd) == Len(Split(cmd)) >= 2 /\ Split(cmd)[1] = C_theme
ThemeArg(cmd) == Split(cmd)[2]

\* the theme names the theme command documents
AcceptedThemes == {T_dark, T_light}

\* the texts of ThemeInputs that are 'theme <x>' with x refused, and with x accepted
\* 'theme <x>' with x neither dark nor light
RefusedTheme(cmd) == IsThemeWithArg(cmd) /\ ThemeArg(cmd) \notin AcceptedThemes

\* the texts of ThemeInputs that are so once normalized
RefusedThemeInputs == {c \in ThemeInputs : RefusedTheme(Normalize(c))}

----------------------------------------------------------------------------
(* Claims *)

\* C1: a call of executeCommand made while the state is Processing fails with the
\* error 'Another command is currently processing' and changes nothing: the state
\* stays Processing, current-command and the resolutions in flight stay as they
\* were, and the history is not appended to.
C1_ConcurrentRejected ==
    [][\A command \in Inputs :
          (IsProcessing /\ ExecuteCommand(command)) =>
              /\ returned' = ConcurrentExecutionError
              /\ executionState' = "processing"
              /\ currentCommand' = currentCommand
              /\ Requests(flights') = Requests(flights)
              /\ commandHistory' = commandHistory]_vars

C1_Witness ==
    /\ returned = ConcurrentExecutionError
    /\ IsProcessing
    /\ Len(flights) = 1
    /\ currentCommand = Some(flights[1].cmd)
    /\ commandHistory = << >>

\* C2: at most one resolution is in flight, and one is in flight only while the
\* state is Processing.
C2_SingleFlight ==
    /\ Len(flights) <= 1
    /\ flights # << >> => IsProcessing

\* C3: the step that ends an accepted submission, with success or with failure,
\* leaves the state Idle and current-command null; whenever nothing is pending the
\* state is Idle and current-command is null, and a valid text submitted then is
\* accepted.
C3_IdleAfterResolve ==
    /\ [][Closes => (executionState' = "idle" /\ currentCommand' = Null)]_vars
    /\ [](Quiescent => (executionState = "idle" /\ currentCommand = Null))
    /\ [][\A command \in ValidInputs :
             (Quiescent /\ lastFinal # NoFinal /\ ExecuteCommand(command)) =>
                 (returned' = Subscribed /\ executionState' = "processing")]_vars

C3_Witness ==
    /\ Quiescent
    /\ lastFinal # NoFinal
    /\ lastFinal.kind = "error"
    /\ executionState = "idle"
    /\ currentCommand = Null

\* C4: a command during whose resolution another submission was rejected still
\* ends as it would have: the step that ends it leaves the state Idle and
\* current-command null, and its text is the last entry of the history, there once.
C4_FirstUnaltered ==
    [][(Closes /\ frame.rejects) =>
          /\ executionState' = "idle"
          /\ currentCommand' = Null
          /\ commandHistory' # << >>
          /\ Last(commandHistory') = frame.cmd
          /\ Len(commandHistory') >= 2 =>
                commandHistory'[Len(commandHistory') - 1] # frame.cmd]_vars

C4_Witness ==
    /\ frame # NoFrame
    /\ frame.rejects
    /\ frame.kind = "next"
    /\ frame.done = 2
    /\ executionState = "idle"

C6_NoAdjacentDuplicates == NoAdjacentDuplicates(commandHistory)

\* the same text finalized twice in a row: the second was not appended
C6_Witness ==
    /\ lastFinal # NoFinal
    /\ ~lastFinal.appended
    /\ commandHistory # << >>
    /\ Last(commandHistory) = lastFinal.cmd

\* C7: the history holds at most 50 entries, and they are the most recent (up to
\* 50) of the commands appended since the last clear, in the order appended.
C7_BoundedMostRecent ==
    /\ Len(commandHistory) <= HistoryCap
    /\ commandHistory = LastN(log, HistoryCap)

C7_Witness ==
    /\ Len(log) > HistoryCap
    /\ Len(commandHistory) = HistoryCap

\* C8: the addToHistory statement of finalize leaves the normalized command as the
\* last entry of the history, whether the resolution succeeded or failed.
C8_AppendsWhateverOutcome ==
    [][HistoryStep =>
          /\ commandHistory' # << >>
          /\ Last(commandHistory') = frame.cmd
          /\ IsNormalized(frame.cmd)]_vars

C8_Witness ==
    /\ lastFinal # NoFinal
    /\ lastFinal.kind = "error"
    /\ lastFinal.appended
    /\ Last(commandHistory) = lastFinal.cmd

\* C9: every answer delivered ends by running finalize to its end, and finalize
\* runs state to Idle, then current-command to null, then the append: the
\* history grows only in a step taken with the state Idle and current-command
\* null.
C9_FinalizeOrder ==
    /\ [][(commandHistory' # commandHistory /\ commandHistory' # << >>) =>
             /\ executionState = "idle" /\ executionState' = "idle"
             /\ currentCommand = Null /\ currentCommand' = Null]_vars
    /\ [][Closes =>
             /\ frame.done = 2
             /\ lastFinal' = [kind |-> frame.kind, cmd |-> frame.cmd,
                              appended |-> commandHistory' # commandHistory]]_vars
    /\ [](frame # NoFrame =>
             /\ frame.done >= 1 => executionState = "idle"
             /\ frame.done >= 2 => currentCommand = Null)

C9_Witness ==
    /\ frame # NoFrame
    /\ frame.kind = "error"
    /\ frame.done = 2
    /\ executionState = "idle"
    /\ currentCommand = Null
    /\ commandHistory = << >>

\* C10: no resolution stays in flight beyond the 10 seconds of the request
\* timeout.
C10_TimeoutReleasesLock ==
    \A i \in 1..Len(flights) : ~Overdue(flights[i])

\* C11: the step that delivers the failure of an accepted command leaves the state
\* Error (finalize resets it to Idle afterwards), and the step that delivers a
\* success never leaves it Error.
C11_ErrorBeforeIdle ==
    [][(frame = NoFrame /\ frame' # NoFrame) =>
          IF frame'.kind = "error"
          THEN executionState' = "error"
          ELSE executionState' # "error"]_vars

\* C12: while the subscriber's next callback runs, the state is not Processing and
\* the command is the last entry of the history, and a valid text submitted from
\* the callback is accepted.
C12_CallbackSeesIdle ==
    [][(frame # NoFrame /\ frame.step = "callback" /\ frame.kind = "next") =>
          /\ ~IsProcessing
          /\ commandHistory # << >>
          /\ Last(commandHistory) = frame.cmd
          /\ \A command \in ValidInputs :
                ExecuteCommand(command) => returned' = Subscribed]_vars

\* C13: isValidCommand is true of every command name, and of every command name
\* followed by a space and any argument text.
C13_ArgumentsKeepValid ==
    (call.fn = "isValidCommand"
        /\ \E c \in Registered : call.arg = c \/ StartsWith(call.arg, c \o <<" ">>))
    => call.result = TRUE

C13_Witness ==
    /\ call.fn = "isValidCommand"
    /\ call.arg = <<"s","k","i","l","l","s"," ","a"," ","b">>
    /\ call.result = TRUE

\* C14: isValidCommand is false of every text whose first token is not a command
\* name, the empty text included.
C14_UnknownInvalid ==
    (call.fn = "isValidCommand" /\ ~IsRegistered(FirstToken(call.arg)))
    => call.result = FALSE

C14_Witness ==
    /\ call.fn = "isValidCommand"
    /\ call.arg \in {<< >>, <<"x"," ","h","e","l","p">>}
    /\ call.result = FALSE

\* C15: getCommandSuggestions returns the command names that start with the text,
\* the case of letters aside, in the order of the registry: all of them for the
\* empty text, only help for "he", help among them for "HE", none for "xyz".
C15_SuggestionsByPrefix ==
    call.fn = "getCommandSuggestions" =>
        LET p == call.arg
            r == call.result
        IN  /\ r = SelectSeq(AVAILABLE_COMMANDS, LAMBDA c : PrefixOf(p, c))
            /\ p = << >> => r = AVAILABLE_COMMANDS
            /\ p = <<"h","e">> => r = << <<"h","e","l","p">> >>
            /\ p = <<"H","E">> => Includes(r, <<"h","e","l","p">>)
            /\ p = <<"x","y","z">> => r = << >>

C15_Witness ==
    /\ call.fn = "getCommandSuggestions"
    /\ call.arg = <<"H","E">>
    /\ call.result = << <<"h","e","l","p">> >>

\* C16: from the cursor past the last of n >= 1 entries, the k-th of a run of
\* getPreviousCommand calls returns the k-th newest entry, and null once the oldest
\* was returned, the cursor staying on the oldest; after n or more such calls the
\* j-th of a run of getNextCommand calls returns the entry after the j-th oldest,
\* the n-th returns the saved input, and those after it return null.
C16_WalkBackAndForth ==
    LET n == Len(navHistory)
        st == walk.steps
        PrevRun(k) == \A i \in 1..k : st[i].op = "previous"
        NextRun(k) == \A i \in (k + 1)..Len(st) : st[i].op = "next"
    IN  (walk.on /\ n >= 1) =>
           /\ \A k \in 1..Len(st) :
                 PrevRun(k) =>
                    st[k].ret = IF k <= n THEN Some(navHistory[n - k + 1]) ELSE Null
           /\ (PrevRun(Len(st)) /\ Len(st) >= n) => currentIndex = 0
           /\ \A k \in n..Len(st) :
                 (PrevRun(k) /\ NextRun(k)) =>
                    \A j \in 1..(Len(st) - k) :
                       st[k + j].ret = IF j < n THEN Some(navHistory[j + 1])
                                       ELSE IF j = n THEN Some(tempCommand)
                                       ELSE Null

C16_Witness ==
    /\ walk.on
    /\ Len(navHistory) = 3
    /\ tempCommand # << >>
    /\ Len(walk.steps) = 8
    /\ \A i \in 1..4 : walk.steps[i].op = "previous"
    /\ \A i \in 5..8 : walk.steps[i].op = "next"
    /\ walk.steps[4].ret = Null
    /\ walk.steps[7].ret = Some(tempCommand)
    /\ walk.steps[8].ret = Null

C18_CursorInRange ==
    /\ 0 <= currentIndex
    /\ currentIndex <= Len(navHistory)

\* C19: a theme command whose argument is neither dark nor light never calls
\* changeTheme and starts no PATCH, is answered with the red invalid-theme text,
\* and its submission leaves the session's theme and preferences as they were.
C19_InvalidThemeRefused ==
    /\ [](\A i \in 1..Len(flights) :
             RefusedTheme(flights[i].cmd) =>
                /\ flights[i].content = InvalidThemeContent
                /\ ~flights[i].called
                /\ ~flights[i].patch)
    /\ []((frame # NoFrame /\ RefusedTheme(frame.cmd)) =>
             /\ frame.kind = "next"
             /\ frame.content.color = "red"
             /\ frame.content = InvalidThemeContent
             /\ ~frame.called)
    /\ [][\A command \in RefusedThemeInputs :
             ExecuteCommand(command) =>
                UNCHANGED <<sessionTheme, prefTheme, session>>]_vars

C19_Witness ==
    /\ frame # NoFrame
    /\ frame.step = "callback"
    /\ frame.cmd = R_themeNeon
    /\ frame.content = InvalidThemeContent
    /\ ~frame.called
    /\ sessionTheme = T_dark
    /\ prefTheme = T_dark

\* C20: a theme command whose argument is dark or light is answered with the
\* confirmation, and the session's theme and the theme of its preferences are
\* then that argument.
C20_ValidThemeApplied ==
    (frame # NoFrame /\ IsThemeWithArg(frame.cmd)
        /\ ThemeArg(frame.cmd) \in AcceptedThemes) =>
       /\ frame.kind = "next"
       /\ frame.content = ThemeChangedContent
       /\ sessionTheme = ThemeArg(frame.cmd)
       /\ prefTheme = ThemeArg(frame.cmd)
----------------------------------------------------------------------------
\* the skills command reached the subscriber's next callback
SkillsAnswered ==
    /\ frame # NoFrame
    /\ frame.kind = "next"
    /\ frame.fetched # Null
    /\ Split(frame.cmd)[1] = C_skills

\* the resource the answer was made from, and the arguments of the command
SkillsFetched == CHOOSE data \in frame.fetched : TRUE
SkillsArgs == Tail(Split(frame.cmd))

\* C21: 'skills <cat>' with <cat> a category of the skills resource is answered
\* with a list-kind content whose payload is exactly that category's entries; with
\* the category omitted or not a category of the resource the answer is the display
\* of all categories.
C21_SkillsByCategory ==
    SkillsAnswered =>
       IF SkillsArgs # << >> /\ SkillsArgs[1] \in Categories(SkillsFetched)
       THEN /\ frame.content.kind = "list"
            /\ frame.content.payload = Property(SkillsFetched, SkillsArgs[1])
            /\ frame.content.payload.is = "array"
       ELSE /\ frame.content.kind = "text"
            /\ frame.content.payload = AllSkills(SkillsFetched)

----------------------------------------------------------------------------
\* the http.get of a profile command failed and the subscriber is told
FetchFailed ==
    /\ frame # NoFrame
    /\ frame.step = "callback"
    /\ frame.outcome = "fetchError"

\* C22: when the fetch of a profile command's resource fails, the subscriber's
\* error callback receives a CommandError with the code EXECUTION_ERROR: no next
\* notification with a content, and no INVALID_COMMAND.
C22_FetchFailureIsExecutionError ==
    FetchFailed =>
       /\ Split(frame.cmd)[1] \in FetchCommands
       /\ frame.kind = "error"
       /\ frame.error = CreateCommandError("EXECUTION_ERROR")
       /\ frame.error # InvalidCommandError

C22_Witness ==
    /\ FetchFailed
    /\ frame.cmd = R_skillsArg
    /\ frame.error.code = "EXECUTION_ERROR"

----------------------------------------------------------------------------
\* localStorage holds a session that has not yet expired
StoredUnexpired == stored # Null /\ now < The(stored).expiresAt

\* C24: when the service starts with a stored session whose expiresAt is still in
\* the future, that session (same id) becomes the current session; otherwise a
\* session with a new id is created.
C24_StoredSessionRestored ==
    [][boots' # boots =>
          IF StoredUnexpired
          THEN session' # Null /\ The(session').id = The(stored).id
          ELSE session' # Null /\ The(session').id = boots']_vars

----------------------------------------------------------------------------
\* the texts of TermInputs that are a 'clear', with or without arguments
ClearInputs == {c \in TermInputs : FirstToken(Normalize(c)) = C_clear}

\* C23: a submitted 'clear', in any letter case and with or without arguments, is
\* handled by the container alone: CommandService.executeCommand is not called
\* (nothing is returned anew, no resolution starts), the execution state,
\* current-command and the history stay, no command echo is added and the display
\* holds the welcome message only.
C23_ClearHandledByContainer ==
    [][\A command \in ClearInputs :
          TermExecuteCommand(command) =>
              /\ UNCHANGED <<returned, flights, executionState, currentCommand,
                             commandHistory>>
              /\ display' = <<WelcomeItem(WelcomeText)>>]_vars

\* a command was echoed and is still being resolved, and the display has since
\* been cleared
C23_Witness ==
    /\ display = <<WelcomeItem(WelcomeText)>>
    /\ IsProcessing
    /\ Len(flights) = 1
    /\ returned = Subscribed

\* C25: Ctrl+C while a command is Processing only appends the '^C' system message:
\* the state stays Processing and the resolution in flight stays in flight, to be
\* delivered and finalized later.
C25_CancelOnlyAppends ==
    [][CtrlC =>
          /\ IsProcessing
          /\ display' = Append(display, SystemItem("^C"))
          /\ executionState' = "processing"
          /\ flights' = flights
          /\ flights # << >>
          /\ UNCHANGED <<currentCommand, commandHistory, frame, returned>>]_vars

\* the command cancelled with Ctrl+C was answered and finalized all the same
C25_Witness ==
    /\ display = <<WelcomeItem(WelcomeText), CommandItem(R_help), SystemItem("^C"),
                   OutputItem(OtherContent)>>
    /\ frame = NoFrame
    /\ executionState = "idle"
    /\ commandHistory = <<R_help>>

\* C30: a session expires exactly 24 hours after its creation, and once the clock
\* has passed expiresAt no command is executed under it.
C30_NoCommandUnderExpiredSession ==
    [][/\ session' # Null =>
             The(session').expiresAt = The(session').createdAt + 24 * 60 * 60 * 1000
       /\ Len(flights') > Len(flights) =>
             session # Null /\ now <= The(session).expiresAt]_vars

----------------------------------------------------------------------------
\* no call of executeCommand changes the history by itself, rejected or accepted
CallsLeaveHistory ==
    \A command \in Inputs : ExecuteCommand(command) => commandHistory' = commandHistory

\* C26 (amended): the history starts empty; a call of executeCommand, rejected or
\* accepted, leaves it as it is; it changes only in finalize's addToHistory
\* statement, run for an accepted submission whether its resolution succeeded or
\* failed, and in clearHistory, which empties it.
C26_HistoryMutations ==
    /\ commandHistory = << >>
    /\ [][/\ CallsLeaveHistory
          /\ commandHistory' # commandHistory =>
                \/ /\ HistoryStep
                   /\ commandHistory' = AddToHistory(commandHistory, frame.cmd)
                \/ /\ frame = NoFrame
                   /\ commandHistory' = << >>]_vars

\* a failed resolution was appended, and the rejected call after it changed nothing
C26_Witness ==
    /\ frame = NoFrame
    /\ lastFinal # NoFinal
    /\ lastFinal.kind = "error"
    /\ commandHistory = <<lastFinal.cmd>>
    /\ returned = InvalidCommandError

\* C26: the history starts empty and changes only when a submission succeeded and
\* when it is cleared: a rejected submission and a failed resolution leave it
\* unchanged.
C26_OnlySuccessAppends ==
    /\ commandHistory = << >>
    /\ [][/\ CallsLeaveHistory
          /\ commandHistory' # commandHistory =>
                \/ HistoryStep /\ frame.kind = "next"
                \/ frame = NoFrame /\ commandHistory' = << >>]_vars

----------------------------------------------------------------------------
\* how often character c stands in s
Count(s, c) == Cardinality({i \in 1..Len(s) : s[i] = c})

\* s holds no formatting marker: no pair of asterisks (bold takes four, italic
\* two), no pair of grave accents and no newline
MarkerFree(s) ==
    /\ Count(s, "*") < 2
    /\ Count(s, Backquote) < 2
    /\ Count(s, "\n") = 0

\* C27: formatTable with explicit headers returns those headers and, for every
\* row object, one cell per header: the string form of the row's value for the
\* header, and the empty string when the row has no value for it.
C27_TableProjectsHeaders ==
    (call.fn = "formatTable" /\ call.arg.headers.given) =>
       LET data == call.arg.data
           names == call.arg.headers.names
           table == call.result.content
       IN  /\ table.headers = names
           /\ Len(table.rows) = Len(data)
           /\ \A i \in 1..Len(data) :
                 data[i].t = "object" =>
                    /\ Len(table.rows[i]) = Len(names)
                    /\ \A j \in 1..Len(names) :
                          table.rows[i][j] =
                             IF Get(data[i], names[j]) = JUndefined
                             THEN ""
                             ELSE StringOf(Get(data[i], names[j]))

\* C28: formatText is the identity on a text that holds no formatting marker.
C28_MarkerFreeTextUnchanged ==
    (call.fn = "formatText" /\ MarkerFree(call.arg.content)) =>
       /\ call.result.content = call.arg.content
       /\ call.result.type = "text"

\* a text with one asterisk and one grave accent went through unchanged
C28_Witness ==
    /\ call.fn = "formatText"
    /\ call.arg.content = <<"a", " ", "*", " ", Backquote>>
    /\ MarkerFree(call.arg.content)
    /\ call.result.content = call.arg.content

\* C29: formatPaginated attaches current, total, hasNext (true exactly when
\* current < total) and hasPrevious (true exactly when current > 1), and leaves
\* the content as it was.
C29_PaginationFlags ==
    call.fn = "formatPaginated" =>
       /\ call.result.pagination.current = call.arg.currentPage
       /\ call.result.pagination.total = call.arg.totalPages
       /\ call.result.pagination.hasNext
             <=> call.arg.currentPage < call.arg.totalPages
       /\ call.result.pagination.hasPrevious <=> call.arg.currentPage > 1
       /\ DOMAIN call.result.pagination = {"current", "total", "hasNext", "hasPrevious"}
       /\ call.result.content = call.arg.content

\* the last page of three: a page before it and none after it
C29_Witness ==
    /\ call.fn = "formatPaginated"
    /\ call.arg.currentPage = 3
    /\ call.arg.totalPages = 3
    /\ ~call.result.pagination.hasNext
    /\ call.result.pagination.hasPrevious
    /\ call.result.content = <<"*", "a", "*">>

\* the whitespace-delimited tokens of s: the maximal runs of other characters
RECURSIVE TokensFrom(_, _, _)
TokensFrom(s, i, cur) ==
    IF i > Len(s) THEN (IF cur = << >> THEN << >> ELSE <<cur>>)
    ELSE IF s[i] \in WhiteSpace
         THEN (IF cur = << >> THEN << >> ELSE <<cur>>) \o TokensFrom(s, i + 1, << >>)
         ELSE TokensFrom(s, i + 1, Append(cur, s[i]))

Tokens(s) == TokensFrom(s, 1, << >>)

\* C31: a text submitted while nothing is processing is accepted exactly when the
\* first whitespace-delimited token of its trimmed, lower-cased form is a registered
\* command name, and the resolver then receives the remaining whitespace-delimited
\* tokens as the arguments.
C31_AcceptedByFirstToken ==
    [][\A command \in AssetInputs :
          (~IsProcessing /\ ExecuteCommand(command)) =>
             LET text == Normalize(command)
                 accepted == returned' = Subscribed
             IN  /\ accepted <=> IsRegistered(FirstToken(text))
                 /\ accepted => Last(flights').args = Tail(Tokens(text))]_vars

\* C32: whatever addCommand, clearHistory and importHistory calls were made, the
\* CommandHistoryService log has at most 50 entries and no two identical entries
\* next to each other.
C32_LogBoundedNoAdjacentDuplicates ==
    /\ Len(navHistory) <= MaxHistorySize
    /\ NoAdjacentDuplicates(navHistory)

\* C33: in every reachable state every entry of CommandService's History is trimmed
\* and lower-case, and its first space-delimited token is a registered command name.
C33_HistoryEntriesNormalizedValid ==
    \A i \in 1..Len(commandHistory) :
        /\ IsNormalized(commandHistory[i])
        /\ Split(commandHistory[i])[1] \in Registered

\* ' AboutMe<tab>' was submitted and finalized: the History holds 'aboutme', which
\* no other text submitted normalizes to
C33_Witness ==
    /\ \E i \in 1..Len(commandHistory) : commandHistory[i] = AVAILABLE_COMMANDS[3]
    /\ \E i \in 1..Len(commandHistory) : Len(Split(commandHistory[i])) > 1

\* the inputs of the profile commands that the validation accepts
ValidAssetInputs == {c \in AssetInputs : IsValidCommand(Normalize(c))}

\* a pending command leaves only into the finalize step
LeavesIntoFinalize ==
    (frame = NoFrame /\ Len(flights') < Len(flights)) => frame' # NoFrame

\* the finalize step of an unsubscribed command ends with the state Idle, no
\* current command and the command last in the History
UnsubscribedFinalized ==
    (Closes /\ frame.kind = "unsubscribed") =>
        /\ executionState' = "idle"
        /\ currentCommand' = Null
        /\ commandHistory' # << >>
        /\ Last(commandHistory') = frame.cmd

\* a valid submission made once that finalize step is over is accepted
AcceptedAfterUnsubscribed ==
    \A command \in ValidAssetInputs :
        (Quiescent /\ lastFinal.kind = "unsubscribed" /\ ExecuteCommand(command))
            => returned' = Subscribed

\* C34: when the caller unsubscribes from an accepted submission before it resolves,
\* the finalize step still runs: the state returns to Idle, current-command becomes
\* null, the command is appended to the History, and later submissions are accepted.
C34_UnsubscribeStillFinalizes ==
    /\ [](Quiescent => (executionState = "idle" /\ currentCommand = Null))
    /\ [][LeavesIntoFinalize /\ UnsubscribedFinalized /\ AcceptedAfterUnsubscribed]_vars

\* a command was unsubscribed while pending and finalized, and the next submission
\* is in flight
C34_Witness ==
    /\ lastFinal.kind = "unsubscribed"
    /\ frame = NoFrame
    /\ Len(flights) = 1
    /\ returned = Subscribed
    /\ executionState = "processing"
    /\ commandHistory # << >>
    /\ Last(commandHistory) = lastFinal.cmd

\* the theme names that 'theme' with no argument lists
ListedThemes == ExecuteThemeCommand(<< >>).content.names

\* C35: the theme names listed by 'theme' with no argument are those that
\* 'theme <name>' accepts as valid, and every accepted name is one the session
\* applies: a 'theme <name>' answered is refused as invalid exactly when the name
\* is not listed, and is answered with the confirmation otherwise.
C35_ListedAreAcceptedAndApplied ==
    (frame # NoFrame /\ impl = "offline" /\ IsThemeWithArg(frame.cmd)) =>
        LET accepted == frame.content # InvalidThemeContent
        IN  /\ accepted <=> ThemeArg(frame.cmd) \in ListedThemes
            /\ accepted => (frame.content = ThemeChangedContent
                              /\ sessionTheme = ThemeArg(frame.cmd))

\* the keys pressed are k times ArrowUp, then k times ArrowDown
UpsThenDowns(k) ==
    /\ Len(keys.steps) = 2 * k
    /\ \A i \in 1..k : keys.steps[i] = "up"
    /\ \A i \in (k + 1)..(2 * k) : keys.steps[i] = "down"

\* the step is the press of that arrow key
Pressed(direction) == keys'.steps = Append(keys.steps, direction)

\* ArrowUp on the oldest of n >= 1 entries and ArrowDown at the live position
\* change neither the input nor the cursor
ExtraPressChangesNothing ==
    LET n == Len(inputHistory)
    IN  /\ (n >= 1 /\ Pressed("up") /\ historyIndex = 0) =>
              UNCHANGED <<inputCommand, historyIndex>>
        /\ (n >= 1 /\ Pressed("down") /\ historyIndex = n) =>
              UNCHANGED <<inputCommand, historyIndex>>

\* C36: with n >= 1 entries, the input t and the cursor at the live position,
\* k times ArrowUp (1 <= k <= n) and then k times ArrowDown leave the input t and
\* the cursor at the live position; ArrowUp on the oldest entry and ArrowDown at
\* the live position change neither the input nor the cursor.
C36_UpDownRoundTrip ==
    /\ [](\A k \in 1..Len(inputHistory) :
            (keys.live /\ UpsThenDowns(k)) =>
                (inputCommand = keys.t /\ historyIndex = Len(inputHistory)))
    /\ [][ExtraPressChangesNothing]_vars

\* three entries, 'su' typed at the live position, three times ArrowUp, three
\* times ArrowDown: the input is 'su' again
C36_Witness ==
    /\ Len(inputHistory) = 3
    /\ keys.live
    /\ keys.t = <<"s","u">>
    /\ UpsThenDowns(3)
    /\ inputCommand = <<"s","u">>
    /\ historyIndex = 3

\* the display is cleared: Ctrl+L, or a 'clear' submitted
ClearStep == CtrlL \/ \E command \in ClearInputs : TermExecuteCommand(command)

\* a clear made while a command is Processing leaves the service as it is
ClearLeavesService ==
    (IsProcessing /\ ClearStep) =>
        /\ UNCHANGED <<executionState, commandHistory, currentCommand, flights>>
        /\ display' = <<WelcomeItem(WelcomeText)>>

\* the answer of a pending command is appended to the display as it stands
AnswerAppended ==
    (frame = NoFrame /\ frame' # NoFrame) =>
        display' = Append(display, IF frame'.kind = "next"
                                   THEN OutputItem(frame'.content)
                                   ELSE ErrorItem(frame'.error.code))

\* C37: clearing the terminal ('clear' or Ctrl+L) while a command is Processing
\* changes neither the execution state nor CommandService's History, and the
\* pending command's output or error is appended to the display after the clear.
C37_ClearKeepsPendingCommand ==
    [][ClearLeavesService /\ AnswerAppended]_vars

\* the echo of 'help' was cleared away while 'help' was pending, and its output
\* stands after the welcome message
C37_Witness ==
    /\ display = <<WelcomeItem(WelcomeText), OutputItem(OtherContent)>>
    /\ frame # NoFrame
    /\ frame.cmd = R_help
    /\ executionState = "processing"

====
